---- MODULE Spec2Model ----
(***************************************************************************)
(* A model of the event-routing and resilience layer of mc-bot:            *)
(*   - the log tailer (modules/minecraft_log_parser.py),                   *)
(*   - the durable event ledger (modules/persistent_events_storage.py),    *)
(*   - the gateway connection manager (modules/websocket_manager.py).      *)
(*                                                                         *)
(* Text is modelled as a sequence of tokens; each token stands for a       *)
(* non-empty piece of text without a line break, except NL, the line       *)
(* break itself, and SP, a piece of whitespace.  Time is in seconds.       *)
(***************************************************************************)
EXTENDS Integers, Sequences, FiniteSets, TLC

(***************************************************************************)
(* Bounds of the model.                                                    *)
(***************************************************************************)
MaxPolls == 3
MaxWrites == 2

(***************************************************************************)
(* Program constants.                                                      *)
(***************************************************************************)
POLL_INTERVAL == 10
DEDUP_WINDOW == 300
EXPIRY_AGE == 3600
UNINITIALIZED == -1

(***************************************************************************)
(* Tokens of log text.                                                     *)
(***************************************************************************)
NL == "\n"
SP == " "
NoPfx == ""
NoMid == ""
PfxMS1 == "[Server thread/INFO] [net.minecraft.server.MinecraftServer/]: "
PfxMS2 == "[Server thread/INFO] [minecraft/MinecraftServer]: "
PfxST == "[Server thread/INFO]: "
PfxPL == "[Server thread/INFO] [minecraft/PlayerList]: "
PfxGP1 == "[Server thread/INFO] [net.minecraft.server.network.ServerGamePacketListenerImpl/]: "
PfxGP2 == "[Server thread/INFO] [minecraft.server.network.ServerGamePacketListenerImpl/]: "
PfxLP == "[Server thread/INFO] [minecraft/ServerLoginPacketListenerImpl]: com.mojang.authlib.GameProfile@1[id=1,name="
PROPS == ",properties={}] (/127.0.0.1:1)"
JOINED == " joined the game"
LOGGEDIN == "[/127.0.0.1:1] logged in with entity id 1"
LEFT == " left the game"
LOST == " lost connection: Disconnected"
DONE1 == "Done (1.0s)! For help, type \"help\""
DONE2 == "Done preparing level. Took 1 seconds"
CHAT == "<Alice> hello"

\* Tokens whose text contains "[Server thread/INFO]".
ServerThreadTokens == {PfxMS1, PfxMS2, PfxST, PfxPL, PfxGP1, PfxGP2, PfxLP}

(***************************************************************************)
(* Python helpers.                                                         *)
(***************************************************************************)
SetMin(S) == CHOOSE x \in S : \A y \in S : x <= y
SetMax(S) == CHOOSE x \in S : \A y \in S : x >= y

\* str.split("\n"): the segments between line breaks; n breaks give n+1
\* segments, so text ending in a line break has an empty last segment.
RECURSIVE Split(_)
Split(text) ==
    IF \A i \in 1..Len(text) : text[i] # NL
    THEN <<text>>
    ELSE LET k == SetMin({i \in 1..Len(text) : text[i] = NL})
         IN  <<SubSeq(text, 1, k - 1)>> \o Split(SubSeq(text, k + 1, Len(text)))

\* str.strip(): leading and trailing whitespace removed.
RECURSIVE Strip(_)
Strip(s) ==
    IF s = <<>> THEN s
    ELSE IF Head(s) = SP THEN Strip(Tail(s))
    ELSE IF s[Len(s)] = SP THEN Strip(SubSeq(s, 1, Len(s) - 1))
    ELSE s

\* range(a, b) as a sequence.
RECURSIVE PyRange(_, _)
PyRange(a, b) == IF a >= b THEN <<>> ELSE <<a>> \o PyRange(a + 1, b)

\* lines[i] with Python's indexing: 0-based, negative counts from the end.
PyIndex(lines, i) == IF i < 0 THEN lines[Len(lines) + i + 1] ELSE lines[i + 1]

(***************************************************************************)
(* Line classification (process_log_line, the pattern tables).             *)
(* A pattern  pfx(.+)verb  is a record; mid is the token that ends the     *)
(* lazy group of the GameProfile pattern.                                  *)
(***************************************************************************)
Pat(p, v) == [pfx |-> p, verb |-> v, mid |-> NoMid]

join_patterns ==
    << Pat(PfxMS1, JOINED), Pat(PfxMS2, JOINED), Pat(PfxST, JOINED), Pat(NoPfx, JOINED) >>
login_patterns == << Pat(PfxPL, LOGGEDIN) >>
leave_patterns ==
    << Pat(PfxMS1, LEFT), Pat(PfxMS2, LEFT), Pat(PfxST, LEFT), Pat(NoPfx, LEFT) >>
disconnect_patterns ==
    << Pat(PfxGP1, LOST), Pat(PfxGP2, LOST), Pat(PfxST, LOST), Pat(NoPfx, LOST),
       [pfx |-> PfxLP, verb |-> LOST, mid |-> PROPS] >>

NoMatch == [matched |-> FALSE, group |-> <<>>]

\* re.search(pattern, line): the leftmost start that admits a match; the
\* greedy group runs to the last verb, the lazy one to the first mid.
ReSearch(pat, line) ==
    LET n == Len(line)
        starts == IF pat.pfx = NoPfx THEN {0}
                  ELSE {p \in 1..n : line[p] = pat.pfx}
        verbsAfter(p) == {j \in (p + 2)..n : line[j] = pat.verb}
        midsAfter(p) == {m \in (p + 2)..n :
                            /\ line[m] = pat.mid
                            /\ \E j \in (m + 1)..n : line[j] = pat.verb}
        ends(p) == IF pat.mid = NoMid THEN verbsAfter(p) ELSE midsAfter(p)
        ok == {p \in starts : ends(p) # {}}
    IN  IF ok = {} THEN NoMatch
        ELSE LET p == SetMin(ok)
                 e == IF pat.mid = NoMid THEN SetMax(ends(p)) ELSE SetMin(ends(p))
             IN  [matched |-> TRUE, group |-> SubSeq(line, p + 1, e - 1)]

\* The loop over one kind's patterns: the first pattern that matches sets the
\* player name (stripped) and the kind, and ends the loop.
RECURSIVE FirstMatch(_, _, _)
FirstMatch(pats, i, line) ==
    IF i > Len(pats) THEN NoMatch
    ELSE LET m == ReSearch(pats[i], line)
         IN  IF m.matched THEN [matched |-> TRUE, group |-> Strip(m.group)]
             ELSE FirstMatch(pats, i + 1, line)

KindTable ==
    << [kind |-> "join", pats |-> join_patterns],
       [kind |-> "login", pats |-> login_patterns],
       [kind |-> "leave", pats |-> leave_patterns],
       [kind |-> "disconnect", pats |-> disconnect_patterns] >>

\* The kinds are tried in order while player_name is still empty.
RECURSIVE ClassifyFrom(_, _)
ClassifyFrom(k, line) ==
    IF k > Len(KindTable) THEN [found |-> FALSE, kind |-> "", name |-> <<>>]
    ELSE LET m == FirstMatch(KindTable[k].pats, 1, line)
         IN  IF m.matched /\ m.group # <<>>
             THEN [found |-> TRUE, kind |-> KindTable[k].kind, name |-> m.group]
             ELSE ClassifyFrom(k + 1, line)

Classify(line) == ClassifyFrom(1, line)

EventKey(kind, name) == <<kind, name>>

\* The notification text, as the tokens it is built from.
NotifyText(kind, name) ==
    CASE kind = "join" -> <<"welcome">> \o name \o <<"joined">>
      [] kind = "login" -> <<"player">> \o name \o <<"logging in">>
      [] kind = "leave" -> name \o <<"left, bye">>
      [] kind = "disconnect" -> name \o <<"disconnected, bye">>
      [] OTHER -> <<>>

\* The server-ready marker, either form.
IsServerReady(line) ==
    \/ \E i \in 1..Len(line) : line[i] = DONE1
    \/ \E i \in 1..Len(line) :
          /\ line[i] \in ServerThreadTokens
          /\ \E j \in (i + 1)..Len(line) : line[j] = DONE2

(***************************************************************************)
(* The durable event ledger (persistent_events_storage.py).  A ledger is   *)
(* [cache, file]: the module's processed_events dict and the JSON file.    *)
(* A dict is a function on its keys; a file entry is the ISO string of a   *)
(* timestamp, or a string that does not parse (valid = FALSE).             *)
(***************************************************************************)
EmptyDict == [k \in {} |-> 0]
DictSet(d, key, v) == [k \in (DOMAIN d) \cup {key} |-> IF k = key THEN v ELSE d[k]]
DictDel(d, keys) == [k \in (DOMAIN d) \ keys |-> d[k]]

isoformat(ts) == [valid |-> TRUE, ts |-> ts]

\* A datetime that carries a UTC offset, which fromisoformat returns for an
\* ISO string that has one.  The program writes datetime.now(), which has
\* none; "current_time - event_time" raises TypeError when event_time does.
Aware == 0 - 2
HasAware(cache) == \E k \in DOMAIN cache : cache[k] = Aware
BadIso == [valid |-> FALSE, ts |-> 0]

\* _load_events_from_file: entries whose timestamp does not parse are dropped.
LoadEventsFromFile(file) ==
    [k \in {x \in DOMAIN file : file[x].valid} |-> file[k].ts]

\* As below, with timestamps written in a form fromisoformat rejects.
SaveEventsToFileUnparsable(events) == [k \in DOMAIN events |-> BadIso]

\* _save_events_to_file: the whole table, each timestamp as its ISO string.
SaveEventsToFile(events) == [k \in DOMAIN events |-> isoformat(events[k])]

\* "if not processed_events: processed_events = _load_events_from_file()"
LoadIfEmpty(L) ==
    IF DOMAIN L.cache = {} THEN [L EXCEPT !.cache = LoadEventsFromFile(L.file)] ELSE L

ExpiredAgeNever(age) == FALSE
\* "(current_time - event_time).total_seconds() > 3600"
ExpiredAge(age) == age > EXPIRY_AGE

ExpiredKeys(cache, t) == {k \in DOMAIN cache : ExpiredAge(t - cache[k])}

\* get_processed_events: the ledger after the lazy load, and the copy returned.
GetProcessedEvents(L) ==
    LET L1 == LoadIfEmpty(L) IN [ledger |-> L1, result |-> L1.cache]

\* add_processed_event(event_key, timestamp), called at time t.
AddProcessedEvent(L, key, ts, t) ==
    LET L1 == LoadIfEmpty(L)
        c1 == DictSet(L1.cache, key, ts)
        c2 == DictDel(c1, ExpiredKeys(c1, t))
    IN  IF HasAware(c1) THEN [cache |-> c1, file |-> L1.file]  \* line 115 raises
        ELSE [cache |-> c2, file |-> SaveEventsToFile(c2)]

\* cleanup_expired_events(), called at time t.
CleanupExpiredEvents(L, t) ==
    LET L1 == LoadIfEmpty(L)
        c2 == DictDel(L1.cache, ExpiredKeys(L1.cache, t))
    IN  IF HasAware(L1.cache) THEN L1  \* line 142 raises
        ELSE [cache |-> c2, file |-> SaveEventsToFile(c2)]

(***************************************************************************)
(* send_message (websocket_manager.py).  conn is the registry entry as the *)
(* caller finds it: present (an entry exists), hasOpen (the handle has an  *)
(* "open" attribute, which then tells whether it is alive), alive (a send  *)
(* on it succeeds).  The result: whether the frame went out.               *)
(***************************************************************************)
NoConn == [present |-> FALSE, hasOpen |-> FALSE, alive |-> FALSE]
ConnInputs ==
    {NoConn} \cup [present : {TRUE}, hasOpen : BOOLEAN, alive : BOOLEAN]

LiveConn == [present |-> TRUE, hasOpen |-> FALSE, alive |-> TRUE]
ClosedConn == [present |-> TRUE, hasOpen |-> TRUE, alive |-> FALSE]

SendMessageNeedsOpenAttr(conn) == conn.present /\ conn.hasOpen /\ conn.alive
SendMessage(conn) ==
    IF ~conn.present THEN FALSE
    ELSE IF conn.hasOpen /\ ~conn.alive THEN FALSE
    ELSE conn.alive  \* connection.send raises on a dead handle; caught

SendMessageOutcomeRaises(conn) ==
    IF ~conn.present THEN [outcome |-> "no_connection", delivered |-> FALSE, raised |-> FALSE]
    ELSE IF conn.hasOpen /\ ~conn.alive
    THEN [outcome |-> "closed", delivered |-> FALSE, raised |-> FALSE]
    ELSE IF conn.alive THEN [outcome |-> "sent", delivered |-> TRUE, raised |-> FALSE]
    ELSE [outcome |-> "send_error", delivered |-> FALSE, raised |-> TRUE]
\* send_message as its caller sees it: how the call ended, whether the frame
\* went out, and whether an exception left the function.  Both warnings and
\* the "except Exception" end in a plain return.
SendMessageOutcome(conn) ==
    IF ~conn.present THEN [outcome |-> "no_connection", delivered |-> FALSE, raised |-> FALSE]
    ELSE IF conn.hasOpen /\ ~conn.alive
    THEN [outcome |-> "closed", delivered |-> FALSE, raised |-> FALSE]
    ELSE IF conn.alive THEN [outcome |-> "sent", delivered |-> TRUE, raised |-> FALSE]
    ELSE [outcome |-> "send_error", delivered |-> FALSE, raised |-> FALSE]

(***************************************************************************)
(* process_log_line.  S carries what the calls of one fetch change and     *)
(* what they did: ledger, pe (the parser module's processed_events copy),  *)
(* fed (indexes of the lines passed in), events, out (frames sent), exc (a  *)
(* call raised, which ends the processing of the fetch).                   *)
(***************************************************************************)
NoTs == 0 - 1
TsOf(d, key) == IF key \in DOMAIN d THEN d[key] ELSE NoTs

RecentlyFlipped(age) == age > DEDUP_WINDOW
\* "(current_time - last_processed_time).total_seconds() < 300"
Recently(age) == age < DEDUP_WINDOW

ShouldProcess(pe, key, t) == ~(key \in DOMAIN pe /\ Recently(t - pe[key]))

\* As below, with a suppressed event refreshing the record of its key.
HandleEventRefreshes(S, i, c, t, group, conn) ==
    LET key == EventKey(c.kind, c.name)
        S0 == [S EXCEPT !.fed = Append(@, i)]
        prev == TsOf(LoadIfEmpty(S.ledger).cache, key)
        L1 == AddProcessedEvent(S.ledger, key, t, t)
        g == GetProcessedEvents(L1)
        L2 == CleanupExpiredEvents(g.ledger, t)
        send == group # ""
        ok == send /\ SendMessage(conn)
        frame == [action |-> "send_group_msg", group_id |-> group,
                  message |-> NotifyText(c.kind, c.name)]
    IN  IF ~c.found THEN S0
        ELSE IF ~ShouldProcess(S.pe, key, t)
        THEN [S0 EXCEPT
                !.ledger = L2,
                !.pe = g.result,
                !.events = Append(@,
                 [idx |-> i, kind |-> c.kind, name |-> c.name, key |-> key, at |-> t,
                  prev |-> prev, group |-> group, recorded |-> FALSE, sent |-> FALSE,
                  delivered |-> FALSE])]
        ELSE [S0 EXCEPT
                !.ledger = L2,
                !.pe = g.result,
                !.events = Append(@,
                   [idx |-> i, kind |-> c.kind, name |-> c.name, key |-> key, at |-> t,
                    prev |-> prev, group |-> group, recorded |-> TRUE, sent |-> send,
                    delivered |-> ok]),
                !.out = IF ok THEN Append(@, frame) ELSE @]

\* As below, with the record written only when the notification went out.
HandleEventRecordsIfDelivered(S, i, c, t, group, conn) ==
    LET key == EventKey(c.kind, c.name)
        S0 == [S EXCEPT !.fed = Append(@, i)]
        prev == TsOf(LoadIfEmpty(S.ledger).cache, key)
    IN  IF ~c.found THEN S0
        ELSE IF ~ShouldProcess(S.pe, key, t)
        THEN [S0 EXCEPT !.events = Append(@,
                 [idx |-> i, kind |-> c.kind, name |-> c.name, key |-> key, at |-> t,
                  prev |-> prev, group |-> group, recorded |-> FALSE, sent |-> FALSE,
                  delivered |-> FALSE])]
        ELSE LET send == group # ""
                 ok == send /\ SendMessage(conn)
                 L1 == IF ok THEN AddProcessedEvent(S.ledger, key, t, t) ELSE S.ledger
                 g == GetProcessedEvents(L1)
                 L2 == CleanupExpiredEvents(g.ledger, t)
                 frame == [action |-> "send_group_msg", group_id |-> group,
                           message |-> NotifyText(c.kind, c.name)]
             IN  [S0 EXCEPT
                    !.ledger = L2,
                    !.pe = g.result,
                    !.events = Append(@,
                       [idx |-> i, kind |-> c.kind, name |-> c.name, key |-> key, at |-> t,
                        prev |-> prev, group |-> group, recorded |-> ok, sent |-> send,
                        delivered |-> ok]),
                    !.out = IF ok THEN Append(@, frame) ELSE @]

\* The part of process_log_line after the pattern loops, c being what they
\* found: "if player_name and event_type:" and its else.
HandleEvent(S, i, c, t, group, conn) ==
    LET key == EventKey(c.kind, c.name)
        S0 == [S EXCEPT !.fed = Append(@, i)]
        prev == TsOf(LoadIfEmpty(S.ledger).cache, key)
    IN  IF ~c.found THEN S0
        ELSE IF TsOf(S.pe, key) = Aware
        THEN [S0 EXCEPT !.exc = TRUE]  \* line 234 raises
        ELSE IF ~ShouldProcess(S.pe, key, t)
        THEN [S0 EXCEPT !.events = Append(@,
                 [idx |-> i, kind |-> c.kind, name |-> c.name, key |-> key, at |-> t,
                  prev |-> prev, group |-> group, recorded |-> FALSE, sent |-> FALSE,
                  delivered |-> FALSE])]
        ELSE LET L1 == AddProcessedEvent(S.ledger, key, t, t)
                 g == GetProcessedEvents(L1)
                 L2 == CleanupExpiredEvents(g.ledger, t)
                 send == group # ""
                 ok == send /\ SendMessage(conn)
                 frame == [action |-> "send_group_msg", group_id |-> group,
                           message |-> NotifyText(c.kind, c.name)]
             IN  IF HasAware(L1.cache)
                 THEN [S0 EXCEPT  \* add_processed_event raised, at line 240
                        !.ledger = L1,
                        !.exc = TRUE,
                        !.events = Append(@,
                           [idx |-> i, kind |-> c.kind, name |-> c.name, key |-> key,
                            at |-> t, prev |-> prev, group |-> group, recorded |-> TRUE,
                            sent |-> FALSE, delivered |-> FALSE])]
                 ELSE
                 [S0 EXCEPT
                    !.ledger = L2,
                    !.pe = g.result,
                    !.events = Append(@,
                       [idx |-> i, kind |-> c.kind, name |-> c.name, key |-> key, at |-> t,
                        prev |-> prev, group |-> group, recorded |-> TRUE, sent |-> send,
                        delivered |-> ok]),
                    !.out = IF ok THEN Append(@, frame) ELSE @]

ProcessLogLine(S, i, line, t, group, conn) ==
    HandleEvent(S, i, Classify(line), t, group, conn)

\* "for i in range(last_position, len(lines)): if line.strip(): process_log_line"
RECURSIVE ProcessRange(_, _, _, _, _, _)
ProcessRange(S, idxs, lines, t, group, conn) ==
    IF idxs = <<>> \/ S.exc THEN S
    ELSE LET i == Head(idxs)
             line == PyIndex(lines, i)
             S1 == IF Strip(line) # <<>>
                   THEN ProcessLogLine(S, i, line, t, group, conn) ELSE S
         IN  ProcessRange(S1, Tail(idxs), lines, t, group, conn)

(***************************************************************************)
(* State.                                                                  *)
(***************************************************************************)
VARIABLES
    now,             \* the wall clock, in seconds
    log,             \* the remote file /logs/latest.log, as text
    writes,          \* how many times the server wrote to it
    last_position,   \* parse_minecraft_logs: the cursor, -1 before the baseline
    server_started,  \* parse_minecraft_logs: the server-ready marker was seen
    tpc,             \* parse_minecraft_logs: "fetch" (top of the loop) or "sleep"
    twaited,         \* seconds the task is sure to have slept since the last fetch attempt
    polls,           \* fetch attempts made
    ledger,          \* persistent_events_storage: [cache, file]
    pe,              \* minecraft_log_parser.processed_events (a copy)
    lastPoll,        \* what the last loop iteration found, saw and did
    evlog,           \* every classified event so far, in order
    fedIdx,          \* indexes of the lines passed to process_log_line so far
    fedTwice,        \* some index was passed twice
    streamBase,      \* lines in the log when STREAMING began
    cpc,             \* connect_to_onebot: "connect", "receive", "backoff", "returned"
    registry,        \* websocket_connections: "" or the handle under "onebot"
    alive,           \* the registered handle is open
    closing,         \* how the gateway closed it: "open", "clean", "abnormal"
    inbox,           \* frames received on it and not yet read by the pump
    arrived,         \* frames the gateway has sent so far
    dispatched,      \* what the pump did with each frame it read, in order
    cwaited,         \* seconds slept since the last connect attempt
    lastConnect,     \* the last connect attempt: its wait and its result
    attemptBit,      \* flips with every connect attempt
    ended,           \* a connection or an attempt has ended, no attempt since
    current,         \* receive_messages: the frame being handled, or NoFrame
    sends,           \* calls of send_message made by SendCall so far
    wire,            \* what was written to a connection: [id, attempt] in order
    lastSend,        \* the last SendCall: the entry it found and how it ended
    AI_CONFIG,       \* ai_handler.AI_CONFIG
    AI_ENABLED,      \* ai_handler.AI_ENABLED
    ai_client,       \* ai_handler.ai_client: "none" or "client"
    short_term,      \* memory/short_term: <<user, date>> -> the entries of that file
    long_term,       \* memory/long_term: user -> the summaries of that file
    handled,         \* message events handled so far
    ticks,           \* clock steps taken so far
    lastMsg,         \* the last message event: what arrived and what was done
    appended,        \* user -> every summary appended to the long-term file, in order
    lastRollup,      \* the last refresh_user_memory: its number, user and entries of today
    restartMarks,    \* the length of evlog at each restart of the process, in order
    lock,            \* persistent_events_storage._lock: 0, or the thread that holds it
    thr,             \* thread -> the ledger operation it runs and where it is in it
    lcalls,          \* ledger operations called by the threads so far
    task,            \* background task -> "running", "cancelling" (cancel() was
                     \* called, CancelledError is due at its await), "cancelled"
    cancelAt,        \* background task -> where it was when cancel() was called
    shutdown,        \* the exit of lifespan: "serving", "closed", "awaiting", "done"
    pt,              \* tailer task -> its call of process_log_line: the segment
                     \* it runs next (0: no call), the key, current_time, should_process
    notified,        \* the calls of send_message made by those calls, in order
    pcalls           \* calls of process_log_line made by the tailer tasks so far

tvars == << now, log, writes, last_position, server_started, tpc, twaited, polls,
            ledger, pe, lastPoll, evlog, fedIdx, fedTwice, streamBase >>

cvars == << cpc, registry, alive, closing, inbox, arrived, dispatched, cwaited,
            lastConnect, attemptBit, ended, current >>

hvars == << sends, wire, lastSend, AI_CONFIG, AI_ENABLED, ai_client, short_term, long_term,
            handled, ticks, lastMsg >>

rvars == << appended, lastRollup >>

pvars == << restartMarks >>

lvars == << lock, thr, lcalls >>

svars == << task, cancelAt, shutdown >>

kvars == << pt, notified, pcalls >>

xvars == << rvars, pvars, lvars, svars, kvars >>

\* The groups a roll-up, a restart and a thread's step leave alone.
notRvars == << pvars, lvars, svars, kvars >>
notPvars == << rvars, lvars, svars, kvars >>
notLvars == << rvars, pvars, svars, kvars >>
notSvars == << rvars, pvars, lvars, kvars >>
notKvars == << rvars, pvars, lvars, svars >>

vars == << tvars, cvars, hvars, xvars >>

(***************************************************************************)
(* The remote log and the file API's answers.                              *)
(***************************************************************************)
LineTexts ==
    { <<PfxST, "Alice", JOINED>>,
      <<PfxST, DONE1>>,
      <<SP>> }

InitLogs == { <<>>, <<PfxST, DONE1, NL>>, <<PfxST, CHAT>> }

InitFiles == { EmptyDict }

Shapes == {"dict_success", "dict_data", "dict_other", "str", "other"}

Responses ==
    {[kind |-> "exception", shape |-> "other"], [kind |-> "http_error", shape |-> "other"]}
    \cup [kind : {"ok"}, shape : Shapes]

\* The content taken from a 200 answer of the given shape carrying data.
ExtractLogContent(shape, data) ==
    CASE shape = "dict_success" -> data
      [] shape = "dict_data" -> data
      [] shape = "dict_other" -> <<>>
      [] shape = "str" -> data
      [] OTHER -> <<>>

\* The text is empty or ends with a line break.
EndsLine(text) == IF text = <<>> THEN TRUE ELSE text[Len(text)] = NL

\* The number of lines of a text, a last line without its line break included.
LineCount(text) ==
    Cardinality({i \in 1..Len(text) : text[i] = NL}) + (IF EndsLine(text) THEN 0 ELSE 1)

(***************************************************************************)
(* parse_minecraft_logs: one iteration of the loop on a 200 answer with    *)
(* non-empty content.                                                      *)
(***************************************************************************)
IsUninitializedZero(pos) == pos = 0
\* "if last_position == -1:"
IsUninitialized(pos) == pos = UNINITIALIZED

BaselinePositionZero(lines) == 0
\* "last_position = len(lines)" at the baseline
BaselinePosition(lines) == Len(lines)

\* As below, with a scan of the lines from the cursor on.
MarkerScanNewLines(pos, started, lines) ==
    IF ~started /\ \E i \in pos + 1..Len(lines) : IsServerReady(lines[i])
    THEN [pos |-> Len(lines), started |-> TRUE]
    ELSE [pos |-> pos, started |-> started]

\* As below, with the flag following what the file holds now.
MarkerScanFollowsFile(pos, started, lines) ==
    IF \E i \in 1..Len(lines) : IsServerReady(lines[i])
    THEN [pos |-> IF started THEN pos ELSE Len(lines), started |-> TRUE]
    ELSE [pos |-> pos, started |-> FALSE]

\* "for line in lines: if <marker>: server_started = True; last_position = len(lines)"
MarkerScan(pos, started, lines) ==
    IF ~started /\ \E i \in 1..Len(lines) : IsServerReady(lines[i])
    THEN [pos |-> Len(lines), started |-> TRUE]
    ELSE [pos |-> pos, started |-> started]

\* the branch "if server_started:" of the processing
StartedBranch(S, pos, lines, t, group, conn) ==
    ProcessRange(S, PyRange(pos, Len(lines)), lines, t, group, conn)

WaitingBranchIdle(S, pos, lines, t, group, conn) == S
\* the branch "else:" (server not started yet) of the processing
WaitingBranch(S, pos, lines, t, group, conn) ==
    ProcessRange(S, PyRange(pos, Len(lines)), lines, t, group, conn)

NoEffects(L, p) ==
    [ledger |-> L, pe |-> p, fed |-> <<>>, events |-> <<>>, out |-> <<>>, exc |-> FALSE]

\* What "except Exception" of line 136 leaves when the processing raised:
\* the assignment of the cursor after the loop was not reached.
ProcessingRaised(m, S) ==
    [pos |-> m.pos, started |-> m.started, S |-> S, outcome |-> "exception",
     sleeps |-> TRUE]

\* As below, with the cursor moved to the end before the lines are processed.
ScanAndProcessMovesFirst(m, S, lines, t, group, conn) ==
    LET branch(S1) == [pos |-> Len(lines), started |-> m.started, S |-> S1,
                       outcome |-> IF S1.exc THEN "exception" ELSE "processed",
                       sleeps |-> TRUE]
    IN  branch(IF m.started
               THEN StartedBranch(S, m.pos, lines, t, group, conn)
               ELSE WaitingBranch(S, m.pos, lines, t, group, conn))

\* As below, with a cursor that never moves back.
ScanAndProcessKeepsCursor(m, S, lines, t, group, conn) ==
    [pos |-> IF m.pos > Len(lines) THEN m.pos ELSE Len(lines), started |-> m.started,
     S |-> IF m.started
           THEN StartedBranch(S, m.pos, lines, t, group, conn)
           ELSE WaitingBranch(S, m.pos, lines, t, group, conn),
     outcome |-> "processed", sleeps |-> TRUE]

\* Lines 85-126: the marker scan found m; the lines from the cursor on are
\* processed by the branch the flag selects, and the cursor moves to the end.
ScanAndProcess(m, S, lines, t, group, conn) ==
    LET after(S1) ==
            IF S1.exc THEN ProcessingRaised(m, S1)
            ELSE [pos |-> Len(lines), started |-> m.started, S |-> S1,
                  outcome |-> "processed", sleeps |-> TRUE]
    IN  after(IF m.started
              THEN StartedBranch(S, m.pos, lines, t, group, conn)
              ELSE WaitingBranch(S, m.pos, lines, t, group, conn))

\* "lines = log_content.split(...)" and what follows it.
IterationOn(lines, pos, started, S, t, group, conn) ==
    IF IsUninitialized(pos)
    THEN [pos |-> BaselinePosition(lines), started |-> started, S |-> S,
          outcome |-> "baseline", sleeps |-> FALSE]
    ELSE ScanAndProcess(MarkerScan(pos, started, lines), S, lines, t, group, conn)

\* As below, with an empty first fetch taken as a baseline of no lines.
IterationBaselinesEmpty(pos, started, L, p, content, t, group, conn) ==
    IF content = <<>>
    THEN [pos |-> IF IsUninitialized(pos) THEN 0 ELSE pos, started |-> started,
          S |-> NoEffects(L, p), outcome |-> "empty", sleeps |-> TRUE]
    ELSE IterationOn(Split(content), pos, started, NoEffects(L, p), t, group, conn)

\* The result of an iteration: the new cursor and flag, the effects S, and
\* whether the iteration ends in the 10-second sleep.
Iteration(pos, started, L, p, content, t, group, conn) ==
    IF content = <<>>
    THEN [pos |-> pos, started |-> started, S |-> NoEffects(L, p),
          outcome |-> "empty", sleeps |-> TRUE]
    ELSE IterationOn(Split(content), pos, started, NoEffects(L, p), t, group, conn)

(***************************************************************************)
(* The gateway connection manager (websocket_manager.py): connect_to_onebot *)
(* and the pump receive_messages.                                          *)
(***************************************************************************)
MaxFrames == 2
RECONNECT_DELAY == 5

FrameKinds == {"event", "garbage", "poison"}
NoFrame == [id |-> 0, kind |-> "none", bit |-> 0]
NoConnect == [attempted |-> FALSE, first |-> FALSE, waited |-> 0, ok |-> FALSE]

InitConnVars ==
    /\ cpc = "connect"
    /\ registry = ""
    /\ alive = FALSE
    /\ closing = "open"
    /\ inbox = <<>>
    /\ arrived = 0
    /\ dispatched = <<>>
    /\ cwaited = 0
    /\ lastConnect = NoConnect
    /\ attemptBit = 0
    /\ ended = FALSE
    /\ current = NoFrame

Attempt(ok) ==
    [attempted |-> TRUE, first |-> ~lastConnect.attempted, waited |-> cwaited, ok |-> ok]

\* "websocket = await websockets.connect(...)" succeeds: the handle is
\* registered and the pump starts.
Connect ==
    /\ cpc = "connect"
    /\ registry' = "ws"
    /\ alive' = TRUE
    /\ closing' = "open"
    /\ inbox' = <<>>
    /\ cpc' = "receive"
    /\ lastConnect' = Attempt(TRUE)
    /\ attemptBit' = 1 - attemptBit
    /\ cwaited' = 0
    /\ ended' = FALSE
    /\ UNCHANGED << arrived, dispatched >>
    /\ UNCHANGED << current, tvars, hvars, xvars >>

ConnectFailsReturns ==
    /\ cpc = "connect"
    /\ cpc' = "returned"
    /\ lastConnect' = Attempt(FALSE)
    /\ attemptBit' = 1 - attemptBit
    /\ cwaited' = 0
    /\ ended' = TRUE
    /\ UNCHANGED << registry, alive, closing, inbox, arrived, dispatched >>
    /\ UNCHANGED << current, tvars, hvars, xvars >>
\* websockets.connect raises (refused, handshake error, timeout): either
\* "except" logs it and goes to sleep.
ConnectFails ==
    /\ cpc = "connect"
    /\ cpc' = "backoff"
    /\ lastConnect' = Attempt(FALSE)
    /\ attemptBit' = 1 - attemptBit
    /\ cwaited' = 0
    /\ ended' = TRUE
    /\ UNCHANGED << registry, alive, closing, inbox, arrived, dispatched >>
    /\ UNCHANGED << current, tvars, hvars, xvars >>

\* The gateway sends a frame on the open connection (bit: the parity of the
\* connect attempt that opened it).
FrameArrives ==
    /\ alive
    /\ arrived < MaxFrames
    /\ \E k \in FrameKinds : inbox' = Append(inbox, [id |-> arrived + 1, kind |-> k, bit |-> attemptBit])
    /\ arrived' = arrived + 1
    /\ UNCHANGED << cpc, registry, alive, closing, dispatched, cwaited, lastConnect,
                    attemptBit, ended >>
    /\ UNCHANGED << current, tvars, hvars, xvars >>

\* The gateway closes the connection (close code 1000/1001: clean) or the
\* connection breaks (abnormal).
CloseConn ==
    /\ alive
    /\ alive' = FALSE
    /\ \E k \in {"clean", "abnormal"} : closing' = k
    /\ ended' = TRUE
    /\ UNCHANGED << cpc, registry, inbox, arrived, dispatched, cwaited, lastConnect,
                    attemptBit >>
    /\ UNCHANGED << current, tvars, hvars, xvars >>

ReadFrameConcurrent ==
    /\ cpc = "receive"
    /\ inbox # <<>>
    /\ current' = Head(inbox)
    /\ inbox' = Tail(inbox)
    /\ UNCHANGED << cpc, registry, alive, closing, arrived, dispatched, cwaited,
                    lastConnect, attemptBit, ended >>
    /\ UNCHANGED << tvars, hvars, xvars >>
\* "async for message in websocket" yields the next frame: the loop asks for
\* it only when the body has finished with the frame before.
ReadFrame ==
    /\ cpc = "receive"
    /\ current = NoFrame
    /\ inbox # <<>>
    /\ current' = Head(inbox)
    /\ inbox' = Tail(inbox)
    /\ UNCHANGED << cpc, registry, alive, closing, arrived, dispatched, cwaited,
                    lastConnect, attemptBit, ended >>
    /\ UNCHANGED << tvars, hvars, xvars >>

DispatchFatal ==
    /\ cpc = "receive"
    /\ current # NoFrame
    /\ dispatched' = Append(dispatched,
          [id |-> current.id, bit |-> current.bit,
           result |-> CASE current.kind = "event" -> "handled"
                        [] current.kind = "garbage" -> "json_error"
                        [] OTHER -> "handler_error"])
    /\ current' = NoFrame
    /\ cpc' = IF current.kind = "event" THEN cpc ELSE "backoff"
    /\ UNCHANGED << registry, alive, closing, inbox, arrived, cwaited, lastConnect,
                    attemptBit, ended >>
    /\ UNCHANGED << tvars, hvars, xvars >>
\* The body of the loop on the frame read: the frame is parsed and handed to
\* handle_message, which runs to its end; a frame that is no JSON, or a
\* handler that raises, is logged, and the loop goes on.
Dispatch ==
    /\ cpc = "receive"
    /\ current # NoFrame
    /\ dispatched' = Append(dispatched,
          [id |-> current.id, bit |-> current.bit,
           result |-> CASE current.kind = "event" -> "handled"
                        [] current.kind = "garbage" -> "json_error"
                        [] OTHER -> "handler_error"])
    /\ current' = NoFrame
    /\ UNCHANGED << cpc, registry, alive, closing, inbox, arrived, cwaited, lastConnect,
                    attemptBit, ended >>
    /\ UNCHANGED << tvars, hvars, xvars >>

\* After a clean close the iterator ends, receive_messages returns, and the
\* "while True:" of connect_to_onebot starts over.
StreamEnds ==
    /\ cpc = "receive"
    /\ current = NoFrame
    /\ inbox = <<>>
    /\ closing = "clean"
    /\ cpc' = "connect"
    /\ UNCHANGED << registry, alive, closing, inbox, arrived, dispatched, cwaited,
                    lastConnect, attemptBit, ended >>
    /\ UNCHANGED << current, tvars, hvars, xvars >>

\* As below, with the handler removing the registry entry.
StreamRaisesClears ==
    /\ cpc = "receive"
    /\ current = NoFrame
    /\ inbox = <<>>
    /\ closing = "abnormal"
    /\ cpc' = "backoff"
    /\ registry' = ""
    /\ UNCHANGED << alive, closing, inbox, arrived, dispatched, cwaited,
                    lastConnect, attemptBit, ended >>
    /\ UNCHANGED << current, tvars, hvars, xvars >>

\* After an abnormal close the iterator raises ConnectionClosed, which
\* "except websockets.exceptions.ConnectionClosed" logs before the sleep.
StreamRaises ==
    /\ cpc = "receive"
    /\ current = NoFrame
    /\ inbox = <<>>
    /\ closing = "abnormal"
    /\ cpc' = "backoff"
    /\ UNCHANGED << registry, alive, closing, inbox, arrived, dispatched, cwaited,
                    lastConnect, attemptBit, ended >>
    /\ UNCHANGED << current, tvars, hvars, xvars >>

\* "await asyncio.sleep(5)" is over.
BackoffDone ==
    /\ cpc = "backoff"
    /\ cpc' = "connect"
    /\ cwaited' = cwaited + RECONNECT_DELAY
    /\ UNCHANGED << registry, alive, closing, inbox, arrived, dispatched, lastConnect,
                    attemptBit, ended >>
    /\ UNCHANGED << current, tvars, hvars, xvars >>

(***************************************************************************)
(* The memory store (memory_manager.py).  short_term maps <<user, date>>   *)
(* to the entries of the file {user}_{date}.json, long_term maps a user to *)
(* the summaries of {user}_long_term.json; a file that does not exist is   *)
(* not in the domain.  Text is a sequence of tokens.  Reads and writes of  *)
(* the files succeed.                                                      *)
(***************************************************************************)
HOUR == 3600
DAY == 24 * HOUR
SHORT_TERM_HOURS == 24
LONG_TERM_DAYS == 7
LONG_TERM_CAP == 30

\* datetime.now().strftime("%Y-%m-%d"), as the number of the day.
DateOf(t) == t \div DAY

\* _get_user_short_term_file: the file of the user for the current date.
UserShortTermFile(user_id, t) == << user_id, DateOf(t) >>

\* "entry_time >= cutoff_time" with cutoff_time = now - timedelta(hours)
InWindow(ts, hours, t) == ts >= t - hours * HOUR

RECURSIVE FilterWindow(_, _, _)
FilterWindow(entries, hours, t) ==
    IF entries = <<>> THEN <<>>
    ELSE (IF InWindow(Head(entries).timestamp, hours, t) THEN <<Head(entries)>> ELSE <<>>)
         \o FilterWindow(Tail(entries), hours, t)

\* get_short_term_memory(user_id, hours) at time t.
GetShortTermMemory(st, user_id, hours, t) ==
    IF UserShortTermFile(user_id, t) \notin DOMAIN st THEN <<>>
    ELSE FilterWindow(st[UserShortTermFile(user_id, t)], hours, t)

\* memories[-n:]
LastN(q, n) == IF n < Len(q) THEN SubSeq(q, Len(q) - n + 1, Len(q)) ELSE q

\* get_long_term_memory(user_id, days)
GetLongTermMemory(lt, user_id, days) ==
    IF user_id \notin DOMAIN lt THEN <<>> ELSE LastN(lt[user_id], days)

\* As below, without the read of the existing file.
AddShortTermMemoryOverwrites(st, user_id, message, response, t) ==
    DictSet(st, UserShortTermFile(user_id, t),
            << [timestamp |-> t, message |-> message, response |-> response] >>)

\* add_short_term_memory(user_id, message, response) at time t.
AddShortTermMemory(st, user_id, message, response, t) ==
    DictSet(st, UserShortTermFile(user_id, t),
            Append(IF UserShortTermFile(user_id, t) \in DOMAIN st
                   THEN st[UserShortTermFile(user_id, t)] ELSE <<>>,
                   [timestamp |-> t, message |-> message, response |-> response]))

\* The summary entry of lines 144-148, of the memories of today.
SummaryEntry(today_memories, t) == [date |-> DateOf(t), count |-> Len(today_memories)]

\* As below, with memories[:30] for memories[-30:].
SummarizeKeepsOldest(st, lt, user_id, t) ==
    IF GetShortTermMemory(st, user_id, SHORT_TERM_HOURS, t) = <<>> THEN lt
    ELSE DictSet(lt, user_id,
                 SubSeq(Append(IF user_id \in DOMAIN lt THEN lt[user_id] ELSE <<>>,
                               SummaryEntry(GetShortTermMemory(st, user_id,
                                                               SHORT_TERM_HOURS, t), t)),
                        1, IF user_id \in DOMAIN lt /\ Len(lt[user_id]) >= LONG_TERM_CAP
                           THEN LONG_TERM_CAP
                           ELSE (IF user_id \in DOMAIN lt THEN Len(lt[user_id]) ELSE 0) + 1))

\* summarize_and_save_long_term_memory(user_id) at time t: nothing without
\* memories of today; else one summary more, the last 30 kept.
SummarizeAndSaveLongTermMemory(st, lt, user_id, t) ==
    IF GetShortTermMemory(st, user_id, SHORT_TERM_HOURS, t) = <<>> THEN lt
    ELSE DictSet(lt, user_id,
                 LastN(Append(IF user_id \in DOMAIN lt THEN lt[user_id] ELSE <<>>,
                              SummaryEntry(GetShortTermMemory(st, user_id,
                                                              SHORT_TERM_HOURS, t), t)),
                       LONG_TERM_CAP))

\* The lines format_memories_for_ai makes of the short-term entries.
RECURSIVE ShortTermLines(_)
ShortTermLines(entries) ==
    IF entries = <<>> THEN <<>>
    ELSE << <<"user:">> \o Head(entries).message >>
         \o (IF Head(entries).response # <<>>
             THEN << <<"ai:">> \o Head(entries).response >> ELSE <<>>)
         \o ShortTermLines(Tail(entries))

RECURSIVE LongTermLines(_)
LongTermLines(summaries) ==
    IF summaries = <<>> THEN <<>>
    ELSE << <<"summary of a day">> >> \o LongTermLines(Tail(summaries))

\* "\n".join(lines)
RECURSIVE Join(_)
Join(lines) ==
    IF lines = <<>> THEN <<>>
    ELSE IF Len(lines) = 1 THEN Head(lines)
    ELSE Head(lines) \o <<NL>> \o Join(Tail(lines))

\* format_memories_for_ai on what get_user_memories returned.
FormatMemories(short, long) ==
    Join((IF short # <<>> THEN << <<"history of today:">> >> \o ShortTermLines(short)
                          ELSE <<>>)
         \o (IF long # <<>> THEN << <<NL, "summaries of the last days:">> >>
                                   \o LongTermLines(long)
                            ELSE <<>>))

\* format_memories_for_ai(user_id) at time t: the context, "" when empty.
FormatMemoriesForAi(st, lt, user_id, t) ==
    FormatMemories(GetShortTermMemory(st, user_id, SHORT_TERM_HOURS, t),
                   GetLongTermMemory(lt, user_id, LONG_TERM_DAYS))

(***************************************************************************)
(* The AI orchestrator (ai_handler.py) and handle_message_event.           *)
(***************************************************************************)
\* CQ code of a mention of the account id.
AtMarker(id) == "[CQ:at,qq=" \o id \o "]"
TRANSPORT == "transport"   \* the transport keyword
VERB_BA == "ba"            \* the action-verb keywords
VERB_JIANG == "jiang"
NoId == ""

Contains(message, token) == \E i \in 1..Len(message) : message[i] = token

UnsetAiConfig == [set |-> FALSE, api_key |-> "", system_prompt |-> <<>>]

\* init_ai(config): the three globals it sets.
InitAi(config, available) ==
    [AI_CONFIG |-> config,
     AI_ENABLED |-> (config.api_key # "" /\ available),
     ai_client |-> IF config.api_key # "" /\ available THEN "client" ELSE "none"]

ShouldAiReplyAnyGroup(enabled, message_type, message, self_id) ==
    enabled /\ message_type \in {"private", "group"}
\* should_ai_reply(message_type, message, self_id)
ShouldAiReply(enabled, message_type, message, self_id) ==
    IF ~enabled THEN FALSE
    ELSE IF message_type = "private" THEN TRUE
    ELSE IF message_type = "group" /\ self_id # NoId
    THEN Contains(message, AtMarker(self_id))
    ELSE FALSE

\* As below, without the second verb.
OffersToolOneVerb(message) == Contains(message, TRANSPORT) /\ Contains(message, VERB_BA)

\* "传送" in message and ("把" in message or "将" in message)
OffersTool(message) ==
    Contains(message, TRANSPORT) /\ (Contains(message, VERB_BA) \/ Contains(message, VERB_JIANG))

BuildRequestAlwaysTool(system_prompt, user_id, memory_context, message) ==
    [messages |->
        << [role |-> "system", content |-> system_prompt] >>
        \o (IF user_id # "" /\ memory_context # <<>>
            THEN << [role |-> "system",
                     content |-> <<"memory context:", NL>> \o memory_context] >>
            ELSE <<>>)
        \o << [role |-> "user", content |-> message] >>,
     tools |-> {"teleport_player"},
     tool_choice |-> "teleport_player"]
BuildRequestContextAlways(system_prompt, user_id, memory_context, message) ==
    [messages |->
        << [role |-> "system", content |-> system_prompt] >>
        \o << [role |-> "system",
                content |-> <<"memory context:", NL>> \o memory_context] >>
        \o << [role |-> "user", content |-> message] >>,
     tools |-> IF OffersTool(message) THEN {"teleport_player"} ELSE {},
     tool_choice |-> IF OffersTool(message) THEN "teleport_player" ELSE "unset"]
\* The parameters of the completion call: messages, and tools and
\* tool_choice when the tool is offered.
BuildRequest(system_prompt, user_id, memory_context, message) ==
    [messages |->
        << [role |-> "system", content |-> system_prompt] >>
        \o (IF user_id # "" /\ memory_context # <<>>
            THEN << [role |-> "system",
                     content |-> <<"memory context:", NL>> \o memory_context] >>
            ELSE <<>>)
        \o << [role |-> "user", content |-> message] >>,
     tools |-> IF OffersTool(message) THEN {"teleport_player"} ELSE {},
     tool_choice |-> IF OffersTool(message) THEN "teleport_player" ELSE "unset"]

NoRequest == [messages |-> <<>>, tools |-> {}, tool_choice |-> "unset"]

INCOMPLETE_PARAMS == <<"teleport parameters incomplete">>
UNPARSABLE_PARAMS == <<"teleport parameters unparsable">>
Confirmation(player_from, player_to) == <<"teleported", player_from, "to", player_to>>
Failure(message) == <<"teleport failed:">> \o message
TpCommand(player_from, player_to) == <<"tp", player_from, player_to>>

\* execute_command(daemonId, uuid, command): what it returns (a result
\* without the key "message" has message <<>>), and whether a request went
\* to the remote API.  api is the module's configuration, http how the
\* request ends.
ExecuteCommand(api, daemonId, uuid, command, http) ==
    IF ~api.configured
    THEN [daemonId |-> daemonId, uuid |-> uuid, command |-> command, requested |-> FALSE,
          status |-> "error", message |-> <<"file api not configured">>]
    ELSE IF http = "ok"
    THEN [daemonId |-> daemonId, uuid |-> uuid, command |-> command, requested |-> TRUE,
          status |-> "success", message |-> <<>>]
    ELSE [daemonId |-> daemonId, uuid |-> uuid, command |-> command, requested |-> TRUE,
          status |-> "error", message |-> <<"request failed:", http>>]

UNKNOWN_ERROR == <<"unknown error">>

TeleportReplyAlwaysConfirms(result, player_from, player_to) ==
    [returned |-> TRUE, exc |-> FALSE, commands |-> << result >>,
     reply |-> Confirmation(player_from, player_to)]
\* Lines 194-200: the command has run and its result becomes the reply.
TeleportReply(result, player_from, player_to) ==
    [returned |-> TRUE, exc |-> FALSE, commands |-> << result >>,
     reply |-> IF result.status = "success" THEN Confirmation(player_from, player_to)
               ELSE Failure(IF result.message # <<>> THEN result.message
                            ELSE UNKNOWN_ERROR)]

IncompleteIfBothMissing(call) == call.player_from = "" /\ call.player_to = ""
\* "if not player_from or not player_to:"
Incomplete(call) == call.player_from = "" \/ call.player_to = ""

NotReturned == [returned |-> FALSE, exc |-> FALSE, commands |-> <<>>, reply |-> <<>>]

\* The loop over choice.message.tool_calls: the first call that returns or
\* raises ends it.
RECURSIVE ResolveToolCalls(_, _, _, _, _)
ResolveToolCalls(calls, i, config, api, http) ==
    IF i > Len(calls) THEN NotReturned
    ELSE IF calls[i].name # "teleport_player"
    THEN ResolveToolCalls(calls, i + 1, config, api, http)
    ELSE IF calls[i].json = "invalid"
    THEN [NotReturned EXCEPT !.returned = TRUE, !.reply = UNPARSABLE_PARAMS]
    ELSE IF calls[i].json = "not_object"
    THEN [NotReturned EXCEPT !.exc = TRUE]
    ELSE IF Incomplete(calls[i])
    THEN [NotReturned EXCEPT !.returned = TRUE, !.reply = INCOMPLETE_PARAMS]
    ELSE IF config.truthy
    THEN TeleportReply(ExecuteCommand(api, config.default_daemon_id, config.default_uuid,
                                      TpCommand(calls[i].player_from, calls[i].player_to),
                                      http),
                       calls[i].player_from, calls[i].player_to)
    ELSE ResolveToolCalls(calls, i + 1, config, api, http)

OnCompletionWritesReply(request, completion, r, st, message, user_id, t) ==
    [called |-> TRUE, request |-> request, exc |-> r.exc,
     reply |-> IF r.returned THEN r.reply ELSE completion.content,
     commands |-> r.commands,
     wrote |-> (user_id # "" /\ (r.returned \/ completion.content # <<>>)),
     st |-> IF user_id # "" /\ (r.returned \/ completion.content # <<>>)
            THEN AddShortTermMemory(st, user_id, message,
                                    IF r.returned THEN r.reply ELSE completion.content, t)
            ELSE st]
\* Lines 165-204 on a completion that came back: the memory write, then the
\* tool calls, then "return ai_response".
OnCompletion(request, completion, r, st, message, user_id, t) ==
    [called |-> TRUE, request |-> request, exc |-> r.exc,
     reply |-> IF r.returned THEN r.reply ELSE completion.content,
     commands |-> r.commands,
     wrote |-> (user_id # "" /\ completion.content # <<>>),
     st |-> IF user_id # "" /\ completion.content # <<>>
            THEN AddShortTermMemory(st, user_id, message, completion.content, t)
            ELSE st]

\* The body of the "try:" of get_ai_response; exc tells that it raised.
TryBody(request, completion, st, message, config, api, user_id, t, http) ==
    IF completion.kind # "ok"
    THEN [called |-> TRUE, request |-> request, exc |-> TRUE, reply |-> <<>>,
          commands |-> <<>>, wrote |-> FALSE, st |-> st]
    ELSE OnCompletion(request, completion,
                      ResolveToolCalls(completion.tool_calls, 1, config, api, http),
                      st, message, user_id, t)

CaughtPropagates(body) ==
    [body EXCEPT !.reply = IF body.exc THEN <<>> ELSE @] @@ [raised |-> body.exc]
\* "except Exception as e: ... return ''": what the try raised is logged.
Caught(body) ==
    [body EXCEPT !.reply = IF body.exc THEN <<>> ELSE @] @@ [raised |-> FALSE]

\* get_ai_response(message, config, execute_command_func, user_id) at time
\* t; completion is what the completion API does, http what the remote
\* command API does.
GetAiResponse(client, ai_config, st, lt, message, config, api, user_id, t, completion, http) ==
    IF client = "none"
    THEN [called |-> FALSE, request |-> NoRequest, exc |-> FALSE, reply |-> <<>>,
          commands |-> <<>>, wrote |-> FALSE, st |-> st, raised |-> FALSE]
    ELSE Caught(TryBody(BuildRequest(ai_config.system_prompt, user_id,
                                     FormatMemoriesForAi(st, lt, user_id, t), message),
                        completion, st, message, config, api, user_id, t, http))

MaxSends == 2
NoSend == [id |-> 0, conn |-> NoConn, outcome |-> "none", raised |-> FALSE]

\* websocket_connections.get("onebot") as send_message finds it: the handle
\* stays in the registry after its connection has ended; whether it has an
\* "open" attribute depends on the websockets version.
RegistryEntry(hasOpen) ==
    IF registry = "" THEN NoConn
    ELSE [present |-> TRUE, hasOpen |-> hasOpen, alive |-> alive]

\* Some task calls send_message(message); the message is numbered sends + 1.
SendCall ==
    /\ sends < MaxSends
    /\ \E hasOpen \in BOOLEAN :
         \E r \in {SendMessageOutcome(RegistryEntry(hasOpen))} :
            /\ wire' = IF r.delivered THEN Append(wire, sends + 1) ELSE wire
            /\ lastSend' = [id |-> sends + 1, conn |-> RegistryEntry(hasOpen),
                            outcome |-> r.outcome, raised |-> r.raised]
    /\ sends' = sends + 1
    /\ UNCHANGED << AI_CONFIG, AI_ENABLED, ai_client, short_term, long_term, handled,
                    ticks, lastMsg >>
    /\ UNCHANGED << tvars, cvars, xvars >>

(***************************************************************************)
(* Actions of the tailer, the ledger's other callers, the server writing   *)
(* its log, and the clock.                                                 *)
(***************************************************************************)
SeqToSet(q) == {q[i] : i \in 1..Len(q)}

\* config.get("server_group_id", "") and the registry entry: the group is
\* not configured, or it is and the entry is missing, live or closed.
Unconfigured == [group |-> "", conn |-> NoConn]
Deliveries ==
    {Unconfigured} \cup [group : {"10001"}, conn : {NoConn, LiveConn, ClosedConn}]

NoPoll ==
    [attempt |-> 0, waited |-> 0, outcome |-> "none", content |-> <<>>,
     prevPos |-> UNINITIALIZED, prevStarted |-> FALSE, prevCache |-> EmptyDict,
     group |-> "", conn |-> NoConn,
     fed |-> <<>>, events |-> <<>>, out |-> <<>>]

\* One iteration of "while True:" in parse_minecraft_logs, from the top of
\* the loop to the sleep that ends it (or to the "continue" of the baseline).
\* The file API answers with one of Rs; while the iteration runs, the
\* configured group and the registry entry are one of GCs.
PollWith(Rs, GCs) ==
    /\ tpc = "fetch"
    /\ polls < MaxPolls
    /\ \E resp \in Rs, g \in {GetProcessedEvents(ledger)} :
         \E content \in {IF resp.kind = "ok" THEN ExtractLogContent(resp.shape, log)
                                              ELSE <<>>} :
         \E gc \in IF content = <<>> \/ IsUninitialized(last_position)
                    THEN {Unconfigured} ELSE GCs :
         \E it \in {IF resp.kind = "ok"
                     THEN Iteration(last_position, server_started, g.ledger, g.result,
                                    content, now, gc.group, gc.conn)
                     ELSE [pos |-> last_position, started |-> server_started,
                           S |-> NoEffects(g.ledger, g.result),
                           outcome |-> resp.kind, sleeps |-> TRUE]} :
            /\ last_position' = it.pos
            /\ server_started' = it.started
            /\ ledger' = it.S.ledger
            /\ pe' = it.S.pe
            /\ tpc' = IF it.sleeps THEN "sleep" ELSE "fetch"
            /\ lastPoll' = [attempt |-> polls + 1, waited |-> twaited,
                            outcome |-> it.outcome, content |-> content,
                            prevPos |-> last_position, prevStarted |-> server_started,
                            prevCache |-> g.result,
                            group |-> gc.group, conn |-> gc.conn,
                            fed |-> it.S.fed, events |-> it.S.events, out |-> it.S.out]
            /\ evlog' = evlog \o it.S.events
            /\ fedIdx' = fedIdx \cup SeqToSet(it.S.fed)
            /\ fedTwice' = (fedTwice \/ SeqToSet(it.S.fed) \cap fedIdx # {})
            /\ streamBase' = IF ~server_started /\ it.started
                             THEN LineCount(content) ELSE streamBase
    /\ polls' = polls + 1
    /\ twaited' = 0
    /\ UNCHANGED << now, log, writes >>
    /\ UNCHANGED << cvars, hvars, xvars >>

\* "await asyncio.sleep(10)": the task resumes after 10 seconds, or later
\* (one of Ds) when the event loop is busy or the host was suspended.
SleepWith(Ds) ==
    /\ tpc = "sleep"
    /\ \E d \in Ds : now' = now + d
    /\ twaited' = POLL_INTERVAL
    /\ tpc' = "fetch"
    /\ UNCHANGED << log, writes, last_position, server_started, polls, ledger, pe,
                    lastPoll, evlog, fedIdx, fedTwice, streamBase >>
    /\ UNCHANGED << cvars, hvars, xvars >>

\* cleanup_expired_events() called on its own, at any time (the call inside
\* process_log_line is part of ProcessLogLine).
CleanupCall ==
    /\ ledger' = CleanupExpiredEvents(ledger, now)
    /\ UNCHANGED << now, log, writes, last_position, server_started, tpc, twaited,
                    polls, pe, lastPoll, evlog, fedIdx, fedTwice, streamBase >>
    /\ UNCHANGED << cvars, hvars, xvars >>

\* The server appends a line (one of Ls).  The text the file API returns
\* keeps its shape: every line ended by a line break, or (an answer without
\* the final line break) lines separated by line breaks.
LogWriteWith(Ls) ==
    /\ writes < MaxWrites
    /\ \E l \in Ls :
         log' = IF EndsLine(log) THEN log \o l \o <<NL>> ELSE log \o <<NL>> \o l
    /\ writes' = writes + 1
    /\ UNCHANGED << now, last_position, server_started, tpc, twaited, polls, ledger,
                    pe, lastPoll, evlog, fedIdx, fedTwice, streamBase >>
    /\ UNCHANGED << cvars, hvars, xvars >>

\* The state when parse_minecraft_logs starts, at one of the times Starts.
InitAt(Logs, Files, Starts) ==
    /\ now \in Starts
    /\ log \in Logs
    /\ writes = 0
    /\ last_position = UNINITIALIZED
    /\ server_started = FALSE
    /\ tpc = "fetch"
    /\ twaited = 0
    /\ polls = 0
    /\ \E f \in Files : ledger = [cache |-> EmptyDict, file |-> f]
    /\ pe = EmptyDict
    /\ lastPoll = NoPoll
    /\ evlog = <<>>
    /\ fedIdx = {}
    /\ fedTwice = FALSE
    /\ streamBase = NoTs
    /\ InitConnVars

InitWith(Logs, Files) == InitAt(Logs, Files, {0})

(***************************************************************************)
(* Actions of the message handler, the memory roll-up and the clock.       *)
(***************************************************************************)
MaxHandled == 2
MaxTicks == 2
MaxSummaries == 1
MaxRefreshes == 2
MaxRollups == 32

NoCompletion == [kind |-> "none", content |-> <<>>, tool_calls |-> <<>>]
NoData ==
    [message_type |-> "", raw_message |-> <<>>, user_id |-> "", self_id |-> NoId,
     group_id |-> ""]
NoReply ==
    [action |-> "none", message_type |-> "", user_id |-> "", group_id |-> "",
     message |-> <<>>]
NoMsg ==
    [data |-> NoData, at |-> 0, context |-> <<>>, enabled |-> FALSE, attempted |-> FALSE,
     called |-> FALSE, request |-> NoRequest, completion |-> NoCompletion,
     exc |-> FALSE, reply |-> <<>>, commands |-> <<>>, wrote |-> FALSE, raised |-> FALSE,
     sent |-> FALSE, frame |-> NoReply, delivered |-> FALSE]

\* main.config as get_ai_response reads it, and the configuration of the
\* file API module.
MainConfig == [truthy |-> TRUE, default_daemon_id |-> "daemon-1", default_uuid |-> "instance-1"]
ApiConfigured == [configured |-> TRUE]
ApiUnconfigured == [configured |-> FALSE]

\* The reply frame of lines 66-74.
ReplyMessage(data, reply) ==
    [action |-> "send_msg", message_type |-> data.message_type,
     user_id |-> IF data.message_type = "private" THEN data.user_id ELSE "",
     group_id |-> IF data.message_type = "group" THEN data.group_id ELSE "",
     message |-> reply]

\* The completion API answers with tool calls only when the tool was offered.
CompletionsFor(Cs, message) ==
    IF OffersTool(message) THEN Cs ELSE {c \in Cs : c.tool_calls = <<>>}

\* What the call of get_ai_response at line 58 gives; without the call, no
\* reply.
AiResponseAt(go, data, completion, api, http) ==
    IF go
    THEN GetAiResponse(ai_client, AI_CONFIG, short_term, long_term, data.raw_message,
                       MainConfig, api, data.user_id, now, completion, http)
    ELSE [called |-> FALSE, request |-> NoRequest, exc |-> FALSE, reply |-> <<>>,
          commands |-> <<>>, wrote |-> FALSE, st |-> short_term, raised |-> FALSE]

\* handle_message_event(data), from its first line to its return: the
\* eligibility check, the completion and what it leads to, and the reply.
\* The event is one of Es, the completion API does one of Cs, the command
\* API is configured as one of As and does one of Hs, and the registry
\* entry is one of Ns.
HandleMessageEventWith(Es, Cs, As, Hs, Ns) ==
    /\ handled < MaxHandled
    /\ \E data \in Es :
       \E go \in {ShouldAiReply(AI_ENABLED, data.message_type, data.raw_message,
                                data.self_id)} :
       \E completion \in IF go /\ ai_client # "none"
                         THEN CompletionsFor(Cs, data.raw_message) ELSE {NoCompletion} :
       \E api \in IF completion.tool_calls # <<>> THEN As ELSE {ApiConfigured} :
       \E http \in IF completion.tool_calls # <<>> /\ api.configured THEN Hs ELSE {"ok"} :
       \E r \in {AiResponseAt(go, data, completion, api, http)} :
       \E conn \in IF r.reply # <<>> /\ ~r.raised THEN Ns ELSE {NoConn} :
       \E out \in {SendMessageOutcome(conn)} :
          /\ short_term' = r.st
          /\ lastMsg' =
               [data |-> data, at |-> now,
                context |-> FormatMemoriesForAi(short_term, long_term, data.user_id, now),
                enabled |-> AI_ENABLED, attempted |-> go,
                called |-> r.called, request |-> r.request, completion |-> completion,
                exc |-> r.exc, reply |-> r.reply, commands |-> r.commands, wrote |-> r.wrote,
                raised |-> (r.raised \/ (r.reply # <<>> /\ ~r.raised /\ out.raised)),
                sent |-> (r.reply # <<>> /\ ~r.raised),
                frame |-> IF r.reply # <<>> /\ ~r.raised
                          THEN ReplyMessage(data, r.reply) ELSE NoReply,
                delivered |-> (r.reply # <<>> /\ ~r.raised /\ out.delivered)]
    /\ handled' = handled + 1
    /\ UNCHANGED << sends, wire, lastSend, AI_CONFIG, AI_ENABLED, ai_client, long_term,
                    ticks >>
    /\ UNCHANGED << tvars, cvars, xvars >>

\* The entries of the user's short-term file of the day of t.
TodayFile(st, user_id, t) ==
    IF << user_id, t \div DAY >> \in DOMAIN st THEN st[<< user_id, t \div DAY >>] ELSE <<>>

NoRollup == [n |-> 0, user |-> "", today |-> <<>>]

\* refresh_user_memory(user_id) for a user of Us: today's short-term entries
\* are folded into one long-term summary.  At most listMax summaries are
\* in the file before the call, and at most callMax calls are made.
RefreshUserMemoryWith(Us, listMax, callMax) ==
    /\ lastRollup.n < callMax
    /\ \E u \in Us :
         /\ (u \in DOMAIN long_term => Len(long_term[u]) < listMax)
         /\ long_term' = SummarizeAndSaveLongTermMemory(short_term, long_term, u, now)
         /\ lastRollup' = [n |-> lastRollup.n + 1, user |-> u,
                           today |-> TodayFile(short_term, u, now)]
         /\ appended' =
               IF TodayFile(short_term, u, now) = <<>> THEN appended
               ELSE DictSet(appended, u,
                            Append(IF u \in DOMAIN appended THEN appended[u] ELSE <<>>,
                                   SummaryEntry(TodayFile(short_term, u, now), now)))
    /\ UNCHANGED << sends, wire, lastSend, AI_CONFIG, AI_ENABLED, ai_client, short_term,
                    handled, ticks, lastMsg >>
    /\ UNCHANGED << tvars, cvars, notRvars >>

RefreshUserMemoryOf(Us) == RefreshUserMemoryWith(Us, MaxSummaries, MaxRefreshes)

\* Time passes (one of Ds, in seconds).
TickWith(Ds) ==
    /\ ticks < MaxTicks
    /\ \E d \in Ds : now' = now + d
    /\ ticks' = ticks + 1
    /\ UNCHANGED << log, writes, last_position, server_started, tpc, twaited, polls,
                    ledger, pe, lastPoll, evlog, fedIdx, fedTwice, streamBase >>
    /\ UNCHANGED << sends, wire, lastSend, AI_CONFIG, AI_ENABLED, ai_client, short_term,
                    long_term, handled, lastMsg >>
    /\ UNCHANGED << cvars, xvars >>

\* The threads that call the ledger, and a thread that runs none of its
\* operations.
Threads == {1, 2}
Idle == [op |-> "none", at |-> 0, key |-> <<>>, ts |-> 0, result |-> EmptyDict,
         blocked |-> FALSE]

\* Tailer tasks on one event loop, and a task outside process_log_line.
Tailers == {1, 2}
NoCall == [seg |-> 0, key |-> <<>>, t |-> 0, should |-> FALSE]

\* The background tasks: connect_to_onebot and parse_minecraft_logs.
Tasks == {"conn", "tailer"}

\* No roll-up has run, the process has not been restarted, no thread is in
\* the ledger, the background tasks run and the application serves.
InitAux ==
    /\ appended = EmptyDict
    /\ lastRollup = NoRollup
    /\ restartMarks = <<>>
    /\ lock = 0
    /\ thr = [t \in Threads |-> Idle]
    /\ lcalls = 0
    /\ task = [k \in Tasks |-> "running"]
    /\ cancelAt = [k \in Tasks |-> ""]
    /\ shutdown = "serving"
    /\ pt = [k \in Tailers |-> NoCall]
    /\ notified = <<>>
    /\ pcalls = 0

\* The handler's state when the process starts: AI as init_ai left it (one
\* of Setups), no memory files.
InitBotWith(Setups) ==
    /\ InitAux
    /\ sends = 0
    /\ wire = <<>>
    /\ lastSend = NoSend
    /\ \E a \in Setups :
         /\ AI_CONFIG = a.AI_CONFIG
         /\ AI_ENABLED = a.AI_ENABLED
         /\ ai_client = a.ai_client
    /\ short_term = EmptyDict
    /\ long_term = EmptyDict
    /\ handled = 0
    /\ ticks = 0
    /\ lastMsg = NoMsg

\* Before init_ai is called.
AiUnset == [AI_CONFIG |-> UnsetAiConfig, AI_ENABLED |-> FALSE, ai_client |-> "none"]

(***************************************************************************)
(* Spec: the tailer over every kind of answer of the file API and every    *)
(* kind of log line, with the clock moving by the poll interval.           *)
(***************************************************************************)
Init == InitWith(InitLogs, InitFiles) /\ InitBotWith({AiUnset})
Poll == PollWith(Responses, Deliveries)
Sleep == SleepWith({POLL_INTERVAL})
LogWrite == LogWriteWith(LineTexts)

Next == Poll \/ Sleep \/ CleanupCall \/ LogWrite

Spec == Init /\ [][Next]_vars

(***************************************************************************)
(* SpecRotate: as Spec, with a server that also starts its log over: the   *)
(* file the API reads is then empty or holds the first line of a new run.  *)
(***************************************************************************)
LogRotate ==
    /\ writes < MaxWrites
    /\ log # <<>>
    /\ log' \in {<<>>, <<PfxST, CHAT, NL>>, <<PfxST, CHAT>>}
    /\ writes' = writes + 1
    /\ UNCHANGED << now, last_position, server_started, tpc, twaited, polls, ledger,
                    pe, lastPoll, evlog, fedIdx, fedTwice, streamBase >>
    /\ UNCHANGED << cvars, hvars, xvars >>

PollRotate == PollWith(Responses, {Unconfigured})

NextRotate == PollRotate \/ Sleep \/ LogWrite \/ LogRotate

SpecRotate == Init /\ [][NextRotate]_vars

(***************************************************************************)
(* SpecClassify: the tailer, streaming, over lines that match the patterns *)
(* of one kind, of two kinds, and of two kinds with a blank where the      *)
(* first pattern has its player name.                                      *)
(***************************************************************************)
ClassifyLines ==
    { <<PfxST, "Alice", JOINED>>,
      <<PfxST, "Alice", LOST>>,
      <<"Alice", JOINED, "Bob", LEFT>>,
      <<SP, JOINED, "Bob", LEFT>> }

InitClassify == InitWith({<<PfxST, DONE1, NL>>}, {EmptyDict}) /\ InitBotWith({AiUnset})

PollClassify ==
    PollWith({[kind |-> "ok", shape |-> "str"]}, {[group |-> "10001", conn |-> LiveConn]})

LogWriteClassify == LogWriteWith(ClassifyLines)

NextClassify == PollClassify \/ Sleep \/ LogWriteClassify

SpecClassify == InitClassify /\ [][NextClassify]_vars

(***************************************************************************)
(* SpecLedger: the tailer and the ledger over time: polls that are the     *)
(* poll interval, the dedup window or the expiry age apart, on a log of    *)
(* complete event lines.                                                   *)
(***************************************************************************)
LedgerLines == { <<PfxST, "Alice", JOINED>>, <<PfxST, "Alice", LEFT>> }
LedgerFiles ==
    { EmptyDict,
      [k \in {EventKey("join", <<"Alice">>)} |-> isoformat(0)],
      [k \in {EventKey("leave", <<"Alice">>)} |-> BadIso] }

InitLedger == InitWith({<<PfxST, CHAT>>}, LedgerFiles) /\ InitBotWith({AiUnset})
PollLedger ==
    PollWith({[kind |-> "ok", shape |-> "str"]},
             {Unconfigured, [group |-> "10001", conn |-> LiveConn]})
SleepLedger ==
    SleepWith({POLL_INTERVAL, DEDUP_WINDOW, EXPIRY_AGE, EXPIRY_AGE + POLL_INTERVAL})
LogWriteLedger == LogWriteWith(LedgerLines)

NextLedger == PollLedger \/ SleepLedger \/ CleanupCall \/ LogWriteLedger

SpecLedger == InitLedger /\ [][NextLedger]_vars

(***************************************************************************)
(* SpecRestart: SpecLedger with restarts of the process.  A restart starts *)
(* the modules anew, with what the files hold; the clock and the remote    *)
(* log go on.                                                              *)
(***************************************************************************)
MaxRestarts == 1

\* The process ends and starts again, some time after a fetch that recorded
\* an event and before the next fetch: the cache is the empty dict of line
\* 14, the tailer starts at its line 22.
Restart ==
    /\ Len(restartMarks) < MaxRestarts
    /\ \E i \in 1..Len(lastPoll.events) : lastPoll.events[i].recorded
    /\ restartMarks' = Append(restartMarks, Len(evlog))
    /\ ledger' = [cache |-> EmptyDict, file |-> ledger.file]
    /\ pe' = EmptyDict
    /\ last_position' = UNINITIALIZED
    /\ server_started' = FALSE
    /\ tpc' = "fetch"
    /\ twaited' = 0
    /\ polls' = 0
    /\ lastPoll' = NoPoll
    /\ fedIdx' = {}
    /\ fedTwice' = FALSE
    /\ streamBase' = NoTs
    /\ UNCHANGED << now, log, writes, evlog >>
    /\ UNCHANGED << cvars, hvars, notPvars >>

InitRestart == InitWith({<<PfxST, CHAT>>}, {EmptyDict}) /\ InitBotWith({AiUnset})
SleepRestart == SleepWith({POLL_INTERVAL, DEDUP_WINDOW, EXPIRY_AGE + POLL_INTERVAL})

PollRestart ==
    PollWith({[kind |-> "ok", shape |-> "str"]}, {[group |-> "10001", conn |-> LiveConn]})
LogWriteRestart == LogWriteWith({<<PfxST, "Alice", JOINED>>})

NextRestart == PollRestart \/ SleepRestart \/ CleanupCall \/ LogWriteRestart \/ Restart

SpecRestart == InitRestart /\ [][NextRestart]_vars

(***************************************************************************)
(* SpecDrop: the tailer over repeated lines while the destination group is *)
(* configured or not and the registry entry is missing, live or closed.    *)
(***************************************************************************)
PollDrop == PollWith({[kind |-> "ok", shape |-> "str"]}, Deliveries)

SleepDrop == SleepWith({POLL_INTERVAL, DEDUP_WINDOW})

NextDrop == PollDrop \/ SleepDrop \/ LogWriteLedger

SpecDrop == InitRestart /\ [][NextDrop]_vars

(***************************************************************************)
(* SpecWindow: the process starts 10 seconds after the record in the file  *)
(* was made; one player's line recurs while the clock moves by 10, 290 and *)
(* 3600 seconds, so that ages of exactly 300 and 3600 seconds arise.       *)
(***************************************************************************)
InitWindow ==
    /\ InitAt({<<PfxST, CHAT>>},
              {EmptyDict, [k \in {EventKey("join", <<"Alice">>)} |-> isoformat(0)]},
              {POLL_INTERVAL})
    /\ InitBotWith({AiUnset})

SleepWindow == SleepWith({POLL_INTERVAL, DEDUP_WINDOW - POLL_INTERVAL, EXPIRY_AGE})

NextWindow == PollRestart \/ SleepWindow \/ CleanupCall \/ LogWriteRestart

SpecWindow == InitWindow /\ [][NextWindow]_vars

(***************************************************************************)
(* SpecRaise: the events file holds a timestamp with a UTC offset, written *)
(* by another hand, so that processing a line raises TypeError.            *)
(***************************************************************************)
RaiseFiles ==
    { EmptyDict,
      [k \in {EventKey("join", <<"Alice">>)} |-> isoformat(Aware)],
      [k \in {EventKey("leave", <<"Bob">>)} |-> isoformat(Aware)] }

InitRaise == InitWith({<<PfxST, CHAT>>}, RaiseFiles) /\ InitBotWith({AiUnset})

PollRaise ==
    PollWith({[kind |-> "ok", shape |-> "str"]}, {[group |-> "10001", conn |-> LiveConn]})

LogWriteRaise == LogWriteWith({<<PfxST, "Alice", JOINED>>, <<PfxST, CHAT>>})

NextRaise == PollRaise \/ SleepDrop \/ LogWriteRaise

SpecRaise == InitRaise /\ [][NextRaise]_vars

(***************************************************************************)
(* SpecLock: threads call the three ledger operations at any time.  An     *)
(* operation is its "with _lock:" and the statements of its body, one step *)
(* each, so that threads interleave wherever the lock lets them.           *)
(***************************************************************************)
MaxCalls == 3

LedgerOps == {"get_processed_events", "add_processed_event", "cleanup_expired_events"}

\* As below, had cleanup_expired_events no "with _lock:".
TakesLockButCleanup(op) == op \in {"get_processed_events", "add_processed_event"}

\* The operation's body runs inside "with _lock:" (lines 89, 105, 133).
TakesLock(op) == op \in LedgerOps

\* The statements of an operation's body, in order.
Section(op) ==
    CASE op = "get_processed_events" -> << "load", "copy" >>
      [] op = "add_processed_event" -> << "load", "insert", "evict", "save" >>
      [] op = "cleanup_expired_events" -> << "load", "evict", "save" >>
      [] OTHER -> << >>

\* The function a statement calls, "" when it calls none.
Callee(stmt) ==
    CASE stmt = "load" -> "_load_events_from_file"
      [] stmt = "save" -> "_save_events_to_file"
      [] OTHER -> ""

\* The ledger after one statement of thread t's operation.
AfterStatement(L, stmt, t, time) ==
    CASE stmt = "load" -> LoadIfEmpty(L)
      [] stmt = "insert" -> [L EXCEPT !.cache = DictSet(L.cache, thr[t].key, thr[t].ts)]
      [] stmt = "evict" -> [L EXCEPT !.cache = DictDel(L.cache, ExpiredKeys(L.cache, time))]
      [] stmt = "save" -> [L EXCEPT !.file = SaveEventsToFile(L.cache)]
      [] OTHER -> L

\* threading.Lock: acquire succeeds only while nobody holds the lock, the
\* caller included.
CanAcquire(holder) == holder = 0

\* A thread calls one of the operations.
LedgerCall ==
    /\ lcalls < MaxCalls
    /\ \E t \in Threads, op \in LedgerOps, key \in {EventKey("join", <<"Alice">>),
                                                      EventKey("leave", <<"Alice">>)} :
         /\ thr[t].op = "none"
         /\ thr' = [thr EXCEPT ![t] = [Idle EXCEPT !.op = op, !.key = key, !.ts = now]]
    /\ lcalls' = lcalls + 1
    /\ UNCHANGED << lock >>
    /\ UNCHANGED << tvars, cvars, hvars, notLvars >>

\* The thread enters the body of its operation: through "with _lock:" when
\* the operation takes the lock.
LedgerEnter ==
    /\ \E t \in Threads :
         /\ thr[t].op # "none" /\ thr[t].at = 0 /\ ~thr[t].blocked
         /\ IF TakesLock(thr[t].op)
            THEN /\ CanAcquire(lock)
                 /\ lock' = t
            ELSE lock' = lock
         /\ thr' = [thr EXCEPT ![t].at = 1]
    /\ UNCHANGED << lcalls >>
    /\ UNCHANGED << tvars, cvars, hvars, notLvars >>

\* The thread runs the next statement of the body.  A statement that calls
\* an operation that takes the lock blocks on it.
LedgerStep ==
    /\ \E t \in Threads :
         /\ thr[t].at >= 1 /\ thr[t].at <= Len(Section(thr[t].op)) /\ ~thr[t].blocked
         /\ IF TakesLock(Callee(Section(thr[t].op)[thr[t].at])) /\ ~CanAcquire(lock)
            THEN /\ thr' = [thr EXCEPT ![t].blocked = TRUE]
                 /\ UNCHANGED ledger
            ELSE /\ ledger' = AfterStatement(ledger, Section(thr[t].op)[thr[t].at], t, now)
                 /\ thr' = [thr EXCEPT
                              ![t].at = @ + 1,
                              ![t].result = IF Section(thr[t].op)[thr[t].at] = "copy"
                                            THEN ledger.cache ELSE @]
    /\ UNCHANGED << lock, lcalls >>
    /\ UNCHANGED << now, log, writes, last_position, server_started, tpc, twaited, polls,
                    pe, lastPoll, evlog, fedIdx, fedTwice, streamBase >>
    /\ UNCHANGED << cvars, hvars, notLvars >>

\* The thread leaves the body: "with" releases the lock it took.
LedgerLeave ==
    /\ \E t \in Threads :
         /\ thr[t].at > Len(Section(thr[t].op)) /\ thr[t].op # "none"
         /\ lock' = IF TakesLock(thr[t].op) THEN 0 ELSE lock
         /\ thr' = [thr EXCEPT ![t] = [Idle EXCEPT !.result = thr[t].result]]
    /\ UNCHANGED << lcalls >>
    /\ UNCHANGED << tvars, cvars, hvars, notLvars >>

InitLock == InitWith({<<>>}, LedgerFiles) /\ InitBotWith({AiUnset})

TickLock == TickWith({EXPIRY_AGE + POLL_INTERVAL})

NextLock == LedgerCall \/ LedgerEnter \/ LedgerStep \/ LedgerLeave \/ TickLock

SpecLock == InitLock /\ [][NextLock]_vars

(***************************************************************************)
(* SpecShutdown: the connection loop and the tailer as tasks that can be   *)
(* cancelled, and the exit of lifespan.  task.cancel() makes the event     *)
(* loop throw CancelledError into the task at the await where it is        *)
(* suspended; the exception meets the "except" clauses of the "try"        *)
(* statements around that await.  connection.close() succeeds.             *)
(***************************************************************************)

\* As below, were asyncio.CancelledError an Exception (Python before 3.8).
CatchesCancelled(clause, exc) == exc = clause \/ clause = "Exception"

\* "except <clause>" catches exc: asyncio.CancelledError derives from
\* BaseException, the others from Exception.
Catches(clause, exc) == exc = clause \/ (clause = "Exception" /\ exc # "CancelledError")

\* The "except" clauses around the await at which the task is suspended.
\* The sleeps of connect_to_onebot are inside its handlers, as is the sleep
\* of parse_minecraft_logs after an exception; its sleep at the end of an
\* iteration is inside the "try".
HandlersAt(k) ==
    IF k = "conn"
    THEN IF cpc = "backoff" THEN << >> ELSE << "ConnectionClosed", "Exception" >>
    ELSE IF tpc = "sleep" /\ lastPoll.outcome = "exception" THEN << >>
         ELSE << "Exception" >>

Swallowed(k, exc) == \E i \in 1..Len(HandlersAt(k)) : Catches(HandlersAt(k)[i], exc)

\* task.cancel().
CancelTask(k, at) ==
    /\ task' = [task EXCEPT ![k] = IF @ = "running" THEN "cancelling" ELSE @]
    /\ cancelAt' = [cancelAt EXCEPT ![k] = at]

\* The "finally" of lifespan up to its first await: an open connection
\* (whose handle has an "open" attribute) is closed, which suspends; else
\* the connection task is cancelled at once.
ShutdownStart ==
    /\ shutdown = "serving"
    /\ \E hasOpen \in BOOLEAN :
         IF RegistryEntry(hasOpen).present /\ hasOpen /\ alive
         THEN /\ alive' = FALSE
              /\ closing' = "clean"
              /\ ended' = TRUE
              /\ shutdown' = "closed"
              /\ UNCHANGED << task, cancelAt >>
         ELSE /\ CancelTask("conn", cpc)
              /\ shutdown' = "awaiting"
              /\ UNCHANGED << alive, closing, ended >>
    /\ UNCHANGED << cpc, registry, inbox, arrived, dispatched, cwaited, lastConnect,
                    attemptBit, current >>
    /\ UNCHANGED << tvars, hvars, notSvars >>

\* "await connection.close()" is over: "task.cancel()", then "await task".
ShutdownCancel ==
    /\ shutdown = "closed"
    /\ CancelTask("conn", cpc)
    /\ shutdown' = "awaiting"
    /\ UNCHANGED << tvars, cvars, hvars, notSvars >>

\* "await task" ends when the task has: "except asyncio.CancelledError:
\* pass".
ShutdownAwaitDone ==
    /\ shutdown = "awaiting"
    /\ task["conn"] = "cancelled"
    /\ shutdown' = "done"
    /\ UNCHANGED << task, cancelAt >>
    /\ UNCHANGED << tvars, cvars, hvars, notSvars >>

\* The owner of the tailer task cancels it while it sleeps.
TailerCancel ==
    /\ task["tailer"] = "running"
    /\ tpc = "sleep"
    /\ CancelTask("tailer", tpc)
    /\ UNCHANGED shutdown
    /\ UNCHANGED << tvars, cvars, hvars, notSvars >>

\* The event loop resumes the connection task with CancelledError: a clause
\* that catches it sends the loop to the handler's sleep, else the
\* exception leaves connect_to_onebot and the task is cancelled.
ConnCancelled ==
    /\ task["conn"] = "cancelling"
    /\ IF Swallowed("conn", "CancelledError")
       THEN /\ cpc' = "backoff"
            /\ task' = [task EXCEPT !["conn"] = "running"]
       ELSE /\ cpc' = "cancelled"
            /\ task' = [task EXCEPT !["conn"] = "cancelled"]
    /\ UNCHANGED << cancelAt, shutdown >>
    /\ UNCHANGED << registry, alive, closing, inbox, arrived, dispatched, cwaited,
                    lastConnect, attemptBit, ended, current >>
    /\ UNCHANGED << tvars, hvars, notSvars >>

\* The same for the tailer: the handler of "except Exception" logs and
\* sleeps, and the loop goes on.
TailerCancelled ==
    /\ task["tailer"] = "cancelling"
    /\ IF Swallowed("tailer", "CancelledError")
       THEN /\ tpc' = "sleep"
            /\ lastPoll' = [lastPoll EXCEPT !.outcome = "exception"]
            /\ task' = [task EXCEPT !["tailer"] = "running"]
       ELSE /\ tpc' = "cancelled"
            /\ lastPoll' = lastPoll
            /\ task' = [task EXCEPT !["tailer"] = "cancelled"]
    /\ UNCHANGED << cancelAt, shutdown >>
    /\ UNCHANGED << now, log, writes, last_position, server_started, twaited, polls,
                    ledger, pe, evlog, fedIdx, fedTwice, streamBase >>
    /\ UNCHANGED << cvars, hvars, notSvars >>

\* A step of the connection loop, which a task takes while it runs.
ConnRuns ==
    /\ task["conn"] = "running"
    /\ (Connect \/ ConnectFails \/ StreamEnds \/ StreamRaises \/ BackoffDone)

\* A step of the tailer.
TailerRuns ==
    /\ task["tailer"] = "running"
    /\ \/ PollWith({[kind |-> "ok", shape |-> "str"], [kind |-> "exception", shape |-> "str"]},
                    {Unconfigured})
       \/ SleepWith({POLL_INTERVAL})

InitShutdown == InitWith({<<PfxST, CHAT>>}, {EmptyDict}) /\ InitBotWith({AiUnset})

NextShutdown ==
    \/ ConnRuns \/ CloseConn \/ TailerRuns
    \/ ShutdownStart \/ ShutdownCancel \/ ShutdownAwaitDone \/ TailerCancel
    \/ ConnCancelled \/ TailerCancelled

\* The event loop runs what is scheduled: a cancelled task is resumed, and
\* lifespan is resumed when what it awaits is done.
SpecShutdown ==
    /\ InitShutdown /\ [][NextShutdown]_vars
    /\ WF_vars(ConnCancelled) /\ WF_vars(TailerCancelled)
    /\ WF_vars(ShutdownCancel) /\ WF_vars(ShutdownAwaitDone)

(***************************************************************************)
(* SpecTicks: two tailer tasks on one event loop feed lines to             *)
(* process_log_line.  A task runs from one suspension point to the next    *)
(* without interruption; the tasks share the ledger and the module-global  *)
(* processed_events (pe).                                                  *)
(***************************************************************************)
MaxTaskCalls == 3

\* As below, with a suspension point between the check and the record.
SegmentsCheckAwaitsAdd ==
    << << "check" >>, << "add", "refresh", "cleanup", "send" >>, << "sent" >> >>

\* The statements of process_log_line after the pattern loops, cut where
\* the coroutine can be suspended: the only await is the one on
\* send_message (line 269), whose call starts at once and which suspends
\* on the connection; what is left then is the log line "sent".
Segments == << << "check", "add", "refresh", "cleanup", "send" >>, << "sent" >> >>

\* One statement of the call c on the shared state S = [ledger, pe, out].
Statement(stmt, c, S) ==
    CASE stmt = "check" ->
            [S EXCEPT !.should = ShouldProcess(S.pe, c.key, c.t)]
      [] stmt = "add" /\ S.should ->
            [S EXCEPT !.ledger = AddProcessedEvent(S.ledger, c.key, c.t, c.t)]
      [] stmt = "refresh" /\ S.should ->
            [S EXCEPT !.ledger = GetProcessedEvents(S.ledger).ledger,
                      !.pe = GetProcessedEvents(S.ledger).result]
      [] stmt = "cleanup" /\ S.should ->
            [S EXCEPT !.ledger = CleanupExpiredEvents(S.ledger, c.t)]
      [] stmt = "send" /\ S.should ->
            [S EXCEPT !.out = Append(S.out, [key |-> c.key, at |-> c.t])]
      [] OTHER -> S

RECURSIVE RunSegment(_, _, _)
RunSegment(stmts, c, S) ==
    IF stmts = <<>> THEN S
    ELSE RunSegment(Tail(stmts), c, Statement(Head(stmts), c, S))

\* A tailer task feeds a line with a player event to process_log_line:
\* current_time is taken and the patterns give the key.
TaskCall ==
    /\ pcalls < MaxTaskCalls
    /\ \E k \in Tailers, line \in LedgerLines :
         /\ pt[k].seg = 0
         /\ pt' = [pt EXCEPT ![k] =
                      [seg |-> 1,
                       key |-> EventKey(Classify(line).kind, Classify(line).name),
                       t |-> now, should |-> FALSE]]
    /\ pcalls' = pcalls + 1
    /\ UNCHANGED notified
    /\ UNCHANGED << tvars, cvars, hvars, notKvars >>

\* The event loop resumes a task, which runs to its next suspension point
\* or to the end of process_log_line.
TaskStep ==
    /\ \E k \in Tailers :
         /\ pt[k].seg >= 1
         /\ \E S \in {RunSegment(Segments[pt[k].seg], pt[k],
                                  [ledger |-> ledger, pe |-> pe, out |-> notified,
                                   should |-> pt[k].should])} :
              /\ ledger' = S.ledger
              /\ pe' = S.pe
              /\ notified' = S.out
              /\ pt' = [pt EXCEPT ![k] =
                           IF pt[k].seg = Len(Segments) THEN NoCall
                           ELSE [@ EXCEPT !.seg = @ + 1, !.should = S.should]]
    /\ UNCHANGED pcalls
    /\ UNCHANGED << now, log, writes, last_position, server_started, tpc, twaited, polls,
                    lastPoll, evlog, fedIdx, fedTwice, streamBase >>
    /\ UNCHANGED << cvars, hvars, notKvars >>

TickTicks == TickWith({POLL_INTERVAL, DEDUP_WINDOW})

NextTicks == TaskCall \/ TaskStep \/ TickTicks

SpecTicks == InitLock /\ [][NextTicks]_vars

(***************************************************************************)
(* SpecConn: the connection manager against a gateway that accepts or      *)
(* refuses connections, sends frames and closes.  SpecConnFair adds what   *)
(* the event loop guarantees: a connect attempt resolves, a sleep ends,    *)
(* the pump reads what has arrived and sees the end of the stream.         *)
(***************************************************************************)
InitConn == InitWith({<<>>}, {EmptyDict}) /\ InitBotWith({AiUnset})

NextConn ==
    \/ Connect \/ ConnectFails \/ FrameArrives \/ CloseConn
    \/ ReadFrame \/ Dispatch \/ StreamEnds \/ StreamRaises \/ BackoffDone

SpecConn == InitConn /\ [][NextConn]_vars

\* SpecSend: the connection manager, and tasks that send while connections
\* come and go.
NextSend == NextConn \/ SendCall

SpecSend == InitConn /\ [][NextSend]_vars

SpecConnFair ==
    /\ InitConn /\ [][NextConn]_vars
    /\ WF_vars(Connect \/ ConnectFails)
    /\ WF_vars(BackoffDone)
    /\ WF_vars(ReadFrame)
    /\ WF_vars(Dispatch)
    /\ WF_vars(StreamEnds)
    /\ WF_vars(StreamRaises)

(***************************************************************************)
(* Properties of the tailer and the ledger.                                *)
(***************************************************************************)
\* The lines of the last fetch, and the indexes a fetch from cursor pos
\* has to pass on: the new lines that are not blank, in file order.
LastLines == Split(lastPoll.content)
NewNonBlank(pos, lines) ==
    SelectSeq(PyRange(pos, Len(lines)), LAMBDA i : Strip(PyIndex(lines, i)) # <<>>)
\* The last fetch was processed (a non-empty fetch after the baseline).
Processed == lastPoll.outcome = "processed"
\* The last fetch is the one in which the server-ready marker was first seen.
MarkerFirstSeen ==
    /\ Processed
    /\ ~lastPoll.prevStarted
    /\ \E i \in 1..Len(LastLines) : IsServerReady(LastLines[i])
\* The last loop iteration was a fetch attempt (a step of the tailer).
PollStep == polls' = polls + 1
\* The ledger had no record of the event's key, or one of the given age or more.
NoRecordWithin(e, age) == e.prev = NoTs \/ e.at - e.prev >= age

NoExpired(L, t) ==
    /\ \A k \in DOMAIN L.cache : t - L.cache[k] <= EXPIRY_AGE
    /\ \A k \in DOMAIN L.file : L.file[k].valid /\ t - L.file[k].ts <= EXPIRY_AGE

\* C2: when add_processed_event or cleanup_expired_events has completed, no
\* key of the cache or of the persisted table is more than 3600 seconds
\* old; and an event whose key has no record, or a record more than 3600
\* seconds old, is recorded again (with the current time) and notified.
C2_ExpiryEvicts ==
    /\ [][ ( \/ CleanupCall
             \/ PollStep /\ \E i \in 1..Len(lastPoll'.events) : lastPoll'.events[i].recorded )
           => NoExpired(ledger', now') ]_vars
    /\ [](\A i \in 1..Len(evlog) :
            (evlog[i].prev = NoTs \/ evlog[i].at - evlog[i].prev > EXPIRY_AGE)
            => /\ evlog[i].recorded
               /\ evlog[i].group # "" => evlog[i].sent)

\* An event arrived 3610 seconds after the record of its key: it was
\* recorded with the current time and notified, and the table holds no
\* expired key.
C2_Witness ==
    \E i \in 1..Len(lastPoll.events) :
        LET e == lastPoll.events[i]
        IN  /\ e.prev # NoTs
            /\ e.at - e.prev > EXPIRY_AGE
            /\ e.recorded /\ e.sent
            /\ e.at = now
            /\ ledger.cache[e.key] = now
            /\ ledger.file = SaveEventsToFile(ledger.cache)

\* The process was restarted after event i and before event j of evlog.
RestartBetween(i, j) ==
    \E m \in 1..Len(restartMarks) : i <= restartMarks[m] /\ restartMarks[m] < j

\* C22: the persisted table is the cache whenever add_processed_event or
\* cleanup_expired_events has run; after a restart get_processed_events
\* returns every key the cache held that is not expired, with its
\* timestamp; and an event of a key recorded before the restart and less
\* than 300 seconds ago is neither recorded nor notified.
C22_DedupSurvivesRestart ==
    /\ [](ledger.cache # EmptyDict
           => \A k \in DOMAIN ledger.cache :
                 /\ k \in DOMAIN ledger.file
                 /\ ledger.file[k].valid /\ ledger.file[k].ts = ledger.cache[k])
    /\ [][ Len(restartMarks') > Len(restartMarks)
           => \A k \in DOMAIN ledger.cache :
                 now - ledger.cache[k] <= EXPIRY_AGE
                 => /\ k \in DOMAIN GetProcessedEvents(ledger').result
                    /\ GetProcessedEvents(ledger').result[k] = ledger.cache[k] ]_vars
    /\ [](\A i, j \in 1..Len(evlog) :
            ( /\ RestartBetween(i, j)
              /\ evlog[i].key = evlog[j].key
              /\ evlog[i].recorded
              /\ evlog[j].at - evlog[i].at < DEDUP_WINDOW )
            => (~evlog[j].recorded /\ ~evlog[j].sent))

\* An event was recorded and notified, the process restarted, and the same
\* key came again 10 seconds after the record, a group being configured:
\* it was suppressed.
C22_Witness ==
    \E i, j \in 1..Len(evlog) :
        /\ RestartBetween(i, j)
        /\ evlog[i].key = evlog[j].key
        /\ evlog[i].recorded /\ evlog[i].sent
        /\ evlog[j].at - evlog[i].at = POLL_INTERVAL
        /\ evlog[j].prev = evlog[i].at
        /\ evlog[j].group # "" /\ ~evlog[j].recorded /\ ~evlog[j].sent

\* The thread is inside the load/mutate/persist section of an operation.
InSection(t) == thr[t].at >= 1

\* C23: at most one thread is inside the body of get_processed_events,
\* add_processed_event or cleanup_expired_events; the thread inside holds
\* the lock; and no thread blocks on the lock while holding it: whoever
\* holds the lock is on its way to releasing it.
C23_LedgerOpsMutuallyExclusive ==
    /\ \A t, u \in Threads : (InSection(t) /\ InSection(u)) => t = u
    /\ \A t \in Threads : InSection(t) <=> lock = t
    /\ \A t \in Threads : ~thr[t].blocked

\* One thread is in the middle of add_processed_event, the other has called
\* an operation and waits for the lock.
C23_Witness ==
    \E t, u \in Threads :
        /\ t # u
        /\ thr[t].op = "add_processed_event" /\ thr[t].at = 3 /\ lock = t
        /\ thr[u].op # "none" /\ thr[u].at = 0

\* C27: whatever the fetches return, a cursor that was set is never -1
\* again, a flag server_started that was set stays set, the flag is never
\* set while the cursor is -1, and the fetch that sets the cursor leaves
\* the flag unset.
C27_TailerStateMovesForward ==
    /\ [](server_started => last_position # UNINITIALIZED)
    /\ [][/\ last_position # UNINITIALIZED => last_position' # UNINITIALIZED
          /\ server_started => server_started'
          /\ last_position = UNINITIALIZED => ~server_started']_vars

\* A fetch while streaming found the log shorter than the cursor, and the
\* tailer is still streaming.
C27_Witness ==
    /\ lastPoll.outcome = "processed"
    /\ lastPoll.prevStarted /\ server_started
    /\ last_position < lastPoll.prevPos
    /\ \A i \in 1..Len(LastLines) : ~IsServerReady(LastLines[i])

\* C28: after a processed fetch whose file holds the server-ready marker in
\* any line, before the cursor or after it, the tailer is streaming and the
\* cursor is at the end of the file; on the fetch that first sees the
\* marker the cursor moves there before any line is processed.
C28_MarkerFetchStartsStreaming ==
    /\ (Processed /\ \E i \in 1..Len(LastLines) : IsServerReady(LastLines[i])) =>
          (server_started /\ last_position = Len(LastLines))
    /\ MarkerFirstSeen => lastPoll.fed = <<>>

\* The marker is first seen in a fetch whose marker lines are all before
\* the cursor, with a new line after it.
C28_Witness ==
    /\ MarkerFirstSeen
    /\ \A i \in 1..Len(LastLines) : IsServerReady(LastLines[i]) => i <= lastPoll.prevPos
    /\ NewNonBlank(lastPoll.prevPos, LastLines) # <<>>
    /\ server_started

\* Some pattern of the k-th kind matches the line.
KindMatches(k, line) ==
    \E i \in 1..Len(KindTable[k].pats) : ReSearch(KindTable[k].pats[i], line).matched

\* C29: a line fed to process_log_line yields at most one event, and the
\* event is of the first kind, in the order join, login, leave, disconnect,
\* that has a pattern matching the line.
C29_FirstMatchingKindWins ==
    \A i \in SeqToSet(lastPoll.fed) :
        /\ Cardinality({n \in 1..Len(lastPoll.events) : lastPoll.events[n].idx = i}) <= 1
        /\ \A n \in 1..Len(lastPoll.events) :
              lastPoll.events[n].idx = i =>
                 \E k \in 1..Len(KindTable) :
                    /\ lastPoll.events[n].kind = KindTable[k].kind
                    /\ KindMatches(k, PyIndex(LastLines, i))
                    /\ \A j \in 1..(k - 1) : ~KindMatches(j, PyIndex(LastLines, i))

\* C30: a suspended call of process_log_line that decided to notify has
\* its key in the ledger already, and no two notifications of tailer tasks
\* carry the same key with times less than 300 seconds apart.
C30_CheckAndRecordAtomic ==
    /\ \A k \in Tailers :
          (pt[k].seg > 1 /\ pt[k].should) =>
             /\ pt[k].key \in DOMAIN ledger.cache
             /\ ledger.cache[pt[k].key] >= pt[k].t
    /\ \A i, j \in 1..Len(notified) :
          (i < j /\ notified[i].key = notified[j].key) =>
             \/ notified[j].at - notified[i].at >= DEDUP_WINDOW
             \/ notified[i].at - notified[j].at >= DEDUP_WINDOW

\* One task is suspended in send_message for a key, and the other task has
\* since checked the same key, less than 300 seconds later, and skipped it.
C30_Witness ==
    \E k, m \in Tailers :
        /\ k # m
        /\ pt[k].seg = 2 /\ pt[k].should
        /\ pt[m].seg = 2 /\ ~pt[m].should
        /\ pt[k].key = pt[m].key
        /\ pt[m].t - pt[k].t < DEDUP_WINDOW
        /\ pt[m].t > pt[k].t

\* C31: an event whose key has no record younger than 300 seconds is
\* recorded whether or not a group is configured and whether or not the
\* frame goes out; a fetch puts on the wire one frame per delivered event
\* of that fetch and nothing for earlier events; and a same-key event less
\* than 300 seconds after a recorded one is suppressed also when the
\* recorded one was not delivered.
C31_RecordIndependentOfNotification ==
    /\ \A i \in 1..Len(evlog) :
          NoRecordWithin(evlog[i], DEDUP_WINDOW) =>
             /\ evlog[i].recorded
             /\ evlog[i].sent <=> evlog[i].group # ""
    /\ Len(lastPoll.out) =
          Cardinality({n \in 1..Len(lastPoll.events) : lastPoll.events[n].delivered})
    /\ \A i, j \in 1..Len(evlog) :
          ( /\ i < j
            /\ evlog[i].key = evlog[j].key
            /\ evlog[i].recorded /\ ~evlog[i].delivered
            /\ evlog[j].at - evlog[i].at < DEDUP_WINDOW )
          => (~evlog[j].recorded /\ ~evlog[j].sent /\ ~evlog[j].delivered)

\* An event was recorded while its frame was dropped (group configured, no
\* live connection); the same key came 10 seconds later with a live
\* connection and was suppressed.
C31_Witness ==
    \E i, j \in 1..Len(evlog) :
        /\ i < j
        /\ evlog[i].key = evlog[j].key
        /\ evlog[j].at - evlog[i].at = POLL_INTERVAL
        /\ evlog[i].recorded /\ evlog[i].sent /\ ~evlog[i].delivered
        /\ lastPoll.group # "" /\ lastPoll.conn = LiveConn
        /\ lastPoll.events # <<>> /\ lastPoll.out = <<>>
        /\ ~evlog[j].recorded

\* The last fetch was processed and returned fewer lines than the cursor.
Truncated == Processed /\ Len(LastLines) < lastPoll.prevPos

C35_FailedFetchChangesNothing ==
    /\ [][(PollStep /\ lastPoll'.outcome \in {"http_error", "empty"}) =>
            /\ last_position' = last_position
            /\ server_started' = server_started
            /\ lastPoll'.fed = <<>> /\ lastPoll'.events = <<>> /\ lastPoll'.out = <<>>
            /\ evlog' = evlog
            /\ ledger'.file = ledger.file
            /\ GetProcessedEvents(ledger').result = GetProcessedEvents(ledger).result]_vars
    /\ []((lastPoll.attempt = 1 /\ lastPoll.outcome \in {"http_error", "empty"}) =>
            last_position = UNINITIALIZED)

\* The first fetch was a 200 whose body gave no content although the log
\* has lines (a shape that is not recognized): no baseline was set.
C35_Witness ==
    /\ lastPoll.attempt = 1
    /\ lastPoll.outcome = "empty"
    /\ log # <<>>
    /\ last_position = UNINITIALIZED
    /\ tpc = "sleep"

\* The fetch after lastPoll, which raised while processing, is made.
RetryOfRaised ==
    /\ lastPoll.outcome = "exception"
    /\ lastPoll'.attempt = lastPoll.attempt + 1

\* C37: when processing raises, the cursor and the flag stay as they were;
\* the next fetch passes the same lines to process_log_line again, from the
\* same cursor, at least as far as the line that raised unless it raises
\* again; an event the failed fetch recorded is suppressed when its line is
\* fed again less than 300 seconds later; and no line is notified twice
\* within 300 seconds.
C37_RaiseRefeedsLinesDedupSuppresses ==
    /\ [](lastPoll.outcome = "exception"
            => /\ last_position = lastPoll.prevPos
               /\ server_started = lastPoll.prevStarted
               /\ lastPoll.fed # <<>>
               /\ lastPoll.out = <<>>)
    /\ [][RetryOfRaised
            => /\ lastPoll'.prevPos = lastPoll.prevPos
               /\ Len(lastPoll'.fed) >= 1
               /\ \A k \in 1..Len(lastPoll.fed) :
                     k <= Len(lastPoll'.fed) => lastPoll'.fed[k] = lastPoll.fed[k]
               /\ lastPoll'.outcome = "processed"
                     => Len(lastPoll'.fed) >= Len(lastPoll.fed)
               /\ \A i \in 1..Len(lastPoll.events), j \in 1..Len(lastPoll'.events) :
                     ( /\ lastPoll.events[i].recorded
                       /\ lastPoll'.events[j].idx = lastPoll.events[i].idx
                       /\ lastPoll'.events[j].at - lastPoll.events[i].at < DEDUP_WINDOW )
                     => /\ ~lastPoll'.events[j].recorded
                        /\ ~lastPoll'.events[j].sent]_vars
    /\ [](\A i, j \in 1..Len(evlog) :
            (i < j /\ evlog[i].idx = evlog[j].idx /\ evlog[i].sent /\ evlog[j].sent)
            => evlog[j].at - evlog[i].at >= DEDUP_WINDOW)

\* A fetch raised at its second new line, having recorded the event of that
\* line; the fetch 10 seconds later passed both lines again and suppressed
\* the event.
C37_Witness ==
    /\ lastPoll.outcome = "processed"
    /\ Len(lastPoll.fed) >= 2
    /\ \E i \in 1..Len(evlog), j \in 1..Len(lastPoll.events) :
          /\ evlog[i].idx = lastPoll.events[j].idx
          /\ evlog[i].recorded /\ ~evlog[i].sent /\ evlog[i].group # ""
          /\ lastPoll.events[j].at - evlog[i].at = POLL_INTERVAL
          /\ ~lastPoll.events[j].recorded
          /\ lastPoll.events[j].idx = lastPoll.fed[2]

\* The time of the record of the key of event e, once e has been handled.
LastRecorded(e) == IF e.recorded THEN e.at ELSE e.prev

\* C36: an event is recorded and notified exactly when its key has no
\* record or a record 300 seconds old or older; a suppressed event leaves
\* the record of its key as it was, so that the next event of the key is
\* measured against the last recorded one; and no step removes a record
\* that is 3600 seconds old or younger.
C36_WindowFromLastNotified ==
    /\ [](\A i \in 1..Len(evlog) :
            /\ evlog[i].recorded <=> NoRecordWithin(evlog[i], DEDUP_WINDOW)
            /\ evlog[i].sent <=> (evlog[i].recorded /\ evlog[i].group # ""))
    /\ [](\A i, j \in 1..Len(evlog) :
            ( /\ i < j
              /\ evlog[i].key = evlog[j].key
              /\ \A k \in (i + 1)..(j - 1) : evlog[k].key # evlog[i].key
              /\ evlog[j].at - LastRecorded(evlog[i]) <= EXPIRY_AGE )
            => evlog[j].prev = LastRecorded(evlog[i]))
    /\ [][\A k \in DOMAIN ledger.cache :
            now - ledger.cache[k] <= EXPIRY_AGE => k \in DOMAIN ledger'.cache]_vars

\* The key was recorded at 0, recurred at 10 (suppressed) and again at 300,
\* 290 seconds after the suppressed occurrence, and was notified.
C36_Witness ==
    \E i, j \in 1..Len(evlog) :
        /\ i < j
        /\ evlog[i].key = evlog[j].key
        /\ ~evlog[i].recorded /\ evlog[i].at - evlog[i].prev = POLL_INTERVAL
        /\ evlog[j].at - evlog[i].at = DEDUP_WINDOW - POLL_INTERVAL
        /\ evlog[j].at - evlog[j].prev = DEDUP_WINDOW
        /\ evlog[j].recorded /\ evlog[j].sent

\* The new lines of the last fetch that are a join of player name.
JoinLines(name) ==
    {i \in SeqToSet(NewNonBlank(lastPoll.prevPos, LastLines)) :
        LET c == Classify(PyIndex(LastLines, i))
        IN  c.found /\ c.kind = "join" /\ c.name = name}
\* The frames of the last fetch that welcome player name.
JoinFrames(name) ==
    {k \in 1..Len(lastPoll.out) :
        /\ lastPoll.out[k].action = "send_group_msg"
        /\ lastPoll.out[k].message = NotifyText("join", name)
        /\ \E m \in 1..Len(lastPoll.out[k].message) :
              SubSeq(lastPoll.out[k].message, m, m + Len(name) - 1) = name}
Players == {<<"Alice">>}
\* The case of C3: a processed fetch with exactly one new join line for the
\* player, no ledger record of the key, a group and a live connection.
OneNewJoin(name) ==
    /\ Processed
    /\ Cardinality(JoinLines(name)) = 1
    /\ EventKey("join", name) \notin DOMAIN lastPoll.prevCache
    /\ lastPoll.group # ""
    /\ lastPoll.conn.present /\ lastPoll.conn.alive

\* C3, as stated: every such fetch sends exactly one group message
\* welcoming the player.
C3_OneJoinOneMessage ==
    \A name \in Players : OneNewJoin(name) => Cardinality(JoinFrames(name)) = 1

\* C3, amended: every such fetch other than the one in which the
\* server-ready marker is first seen sends exactly one group message
\* welcoming the player; that one sends none.
C3_OneJoinOneMessageUnlessMarker ==
    \A name \in Players :
        OneNewJoin(name) =>
            Cardinality(JoinFrames(name)) = IF MarkerFirstSeen THEN 0 ELSE 1

C3_Witness ==
    /\ OneNewJoin(<<"Alice">>)
    /\ ~MarkerFirstSeen
    /\ Cardinality(JoinFrames(<<"Alice">>)) = 1

\* C4: a poll fed the same content as the poll before it, less than 300
\* seconds later, records nothing, calls send_message for nothing and
\* sends nothing.
C4_SameContentNoNotification ==
    [][ ( /\ PollStep
          /\ lastPoll.content # <<>>
          /\ lastPoll'.content = lastPoll.content
          /\ now' - now < DEDUP_WINDOW )
        => /\ \A i \in 1..Len(lastPoll'.events) :
                 ~lastPoll'.events[i].sent /\ ~lastPoll'.events[i].recorded
           /\ lastPoll'.out = <<>>
           /\ evlog' = evlog ]_vars

\* Two polls in a row were fed the same content, which holds a join line,
\* the first of them not the baseline.
C4_Witness ==
    /\ lastPoll.attempt >= 3
    /\ Processed
    /\ lastPoll.prevPos = Len(LastLines)
    /\ lastPoll.group # ""
    /\ \E i \in 1..Len(LastLines) : Classify(LastLines[i]).found
    /\ evlog # <<>>

\* C5: a fetch made with the cursor at -1 passes no line to event
\* processing, writes no ledger record and sends nothing, whatever the
\* content; given content, it sets the cursor to the number of lines.
C5_BaselineEmitsNothing ==
    [][ (PollStep /\ last_position = UNINITIALIZED)
        => /\ lastPoll'.fed = <<>>
           /\ lastPoll'.events = <<>>
           /\ lastPoll'.out = <<>>
           /\ evlog' = evlog
           /\ ledger'.file = ledger.file
           /\ lastPoll'.content # <<>>
                => last_position' = Len(Split(lastPoll'.content)) ]_vars

\* The baseline was taken on content that holds a join line.
C5_Witness ==
    /\ lastPoll.outcome = "baseline"
    /\ lastPoll.prevPos = UNINITIALIZED
    /\ last_position = Len(LastLines)
    /\ \E i \in 1..Len(LastLines) : Classify(LastLines[i]).found

\* C6, as stated: every processed fetch passes on every new non-blank line,
\* the fetch in which the marker is first seen included.
C6_EveryNewLineFed ==
    Processed => lastPoll.fed = NewNonBlank(lastPoll.prevPos, LastLines)

\* C6, amended: every processed fetch passes on every new non-blank line,
\* whether the server has started or not, except the fetch in which the
\* marker is first seen, which passes on none (the cursor jumps to the end
\* of the file before the lines are processed).
C6_EveryNewLineFedUnlessMarker ==
    Processed =>
        lastPoll.fed = IF MarkerFirstSeen THEN <<>>
                       ELSE NewNonBlank(lastPoll.prevPos, LastLines)

\* A fetch before the server has started passed on a new line.
C6_Witness ==
    /\ Processed
    /\ ~lastPoll.prevStarted /\ ~server_started
    /\ lastPoll.fed # <<>>
    /\ lastPoll.fed = NewNonBlank(lastPoll.prevPos, LastLines)

\* The lines appended since STREAMING began, as far as the last fetch saw
\* them, that are not blank.
AppendedNonBlank ==
    {i \in streamBase..(LineCount(lastPoll.content) - 1) : Strip(LastLines[i + 1]) # <<>>}

\* C7: in STREAMING a fetch passes on exactly the new non-blank lines in
\* file order and moves the cursor to the line count; so every line
\* appended after STREAMING began has been processed exactly once.
C7_StreamingProcessesEachLineOnce ==
    (Processed /\ lastPoll.prevStarted) =>
        /\ lastPoll.fed = NewNonBlank(lastPoll.prevPos, LastLines)
        /\ last_position = Len(LastLines)
        /\ AppendedNonBlank \subseteq fedIdx
        /\ ~fedTwice

\* C8: every fetch attempt but the first comes after the 10-second wait.
C8_FixedPollInterval ==
    lastPoll.attempt >= 2 => lastPoll.waited >= POLL_INTERVAL

(***************************************************************************)
(* SpecBot: message events of every kind against every AI setup, every     *)
(* answer of the completion API and of the command API.                    *)
(***************************************************************************)
Users == {"u1", "u2"}
BOT_ID == "100"
OTHER_ID == "200"

Texts ==
    { <<"hi">>,
      <<AtMarker(BOT_ID), "hi">>,
      <<AtMarker(OTHER_ID), "hi">>,
      <<AtMarker(BOT_ID), VERB_BA, "Steve", TRANSPORT, "Alex">>,
      <<TRANSPORT>> }

\* Message events: every text in a group, with and without self_id; in
\* private every text for the bot's account and one text without self_id;
\* one text for another message type.
Events ==
    { e \in [message_type : {"private", "group", "channel"}, raw_message : Texts,
             user_id : Users, self_id : {NoId, BOT_ID}, group_id : {"g1"}] :
        /\ e.message_type = "channel" => e.raw_message = <<"hi">>
        /\ e.message_type = "private" => (e.self_id = BOT_ID \/ e.raw_message = <<"hi">>) }

TpCall(json, player_from, player_to) ==
    [name |-> "teleport_player", json |-> json, player_from |-> player_from,
     player_to |-> player_to]
OtherCall == [name |-> "other_tool", json |-> "object", player_from |-> "", player_to |-> ""]

ToolCallLists ==
    { <<>>,
      << TpCall("object", "Steve", "Alex") >>,
      << TpCall("object", "Steve", "") >>,
      << TpCall("object", "", "Alex") >>,
      << TpCall("invalid", "", "") >>,
      << TpCall("not_object", "", "") >>,
      << OtherCall, TpCall("object", "Steve", "") >>,
      << OtherCall, TpCall("object", "Steve", "Alex") >>,
      << TpCall("object", "Steve", "Alex"), TpCall("object", "Steve", "") >>,
      << TpCall("object", "", "Alex"), TpCall("object", "Steve", "Alex") >> }

Completions ==
    { [kind |-> "raises", content |-> <<>>, tool_calls |-> <<>>],
      [kind |-> "no_choices", content |-> <<>>, tool_calls |-> <<>>] }
    \cup [kind : {"ok"}, content : {<<>>, <<"hello">>}, tool_calls : ToolCallLists]

AiConfigs ==
    { [set |-> TRUE, api_key |-> "", system_prompt |-> <<"be helpful">>],
      [set |-> TRUE, api_key |-> "sk-1", system_prompt |-> <<"be helpful">>] }

AiSetups == {AiUnset} \cup {InitAi(c, a) : c \in AiConfigs, a \in BOOLEAN}

InitBot == InitWith({<<>>}, {EmptyDict}) /\ InitBotWith(AiSetups)

HandleMessageEvent ==
    HandleMessageEventWith(Events, Completions, {ApiConfigured, ApiUnconfigured},
                           {"ok", "http_error"}, {NoConn, LiveConn, ClosedConn})

NextBot == HandleMessageEvent

SpecBot == InitBot /\ [][NextBot]_vars

(***************************************************************************)
(* SpecMemory: two users talk to the bot in private while days pass and    *)
(* the roll-up runs.                                                       *)
(***************************************************************************)
MemoryEvents ==
    [message_type : {"private"}, raw_message : {<<"hi">>}, user_id : Users,
     self_id : {BOT_ID}, group_id : {"g1"}]

InitMemory ==
    InitWith({<<>>}, {EmptyDict}) /\ InitBotWith({InitAi(c, TRUE) : c \in AiConfigs})

HandleMemory ==
    HandleMessageEventWith(MemoryEvents,
                           {[kind |-> "ok", content |-> <<"hello">>, tool_calls |-> <<>>]},
                           {ApiConfigured}, {"ok"}, {LiveConn})
TickMemory == TickWith({HOUR, 20 * HOUR})
RefreshUserMemory == RefreshUserMemoryOf(Users)

NextMemory == HandleMemory \/ TickMemory \/ RefreshUserMemory

SpecMemory == InitMemory /\ [][NextMemory]_vars

(***************************************************************************)
(* SpecPrompt: one user writes to the bot in private, with and without the *)
(* keywords of a teleport request, while days pass and the roll-up runs.   *)
(***************************************************************************)
PromptTexts ==
    { <<"hi">>,
      <<TRANSPORT, "Steve">>,
      <<VERB_BA, VERB_JIANG>>,
      <<VERB_BA, "Steve", TRANSPORT, "Alex">>,
      <<TRANSPORT, "Steve", VERB_JIANG>> }

PromptEvents ==
    [message_type : {"private"}, raw_message : PromptTexts, user_id : {"u1"},
     self_id : {BOT_ID}, group_id : {"g1"}]

HandlePrompt ==
    HandleMessageEventWith(PromptEvents,
                           { [kind |-> "ok", content |-> <<"hello">>, tool_calls |-> <<>>],
                             [kind |-> "ok", content |-> <<>>,
                              tool_calls |-> << TpCall("object", "Steve", "Alex") >>] },
                           {ApiConfigured}, {"ok"}, {LiveConn})

TickPrompt == TickWith({DAY})

RefreshPrompt == RefreshUserMemoryOf({"u1"})

NextPrompt == HandlePrompt \/ TickPrompt \/ RefreshPrompt

SpecPrompt == InitMemory /\ [][NextPrompt]_vars

(***************************************************************************)
(* SpecRollup: one user, answered up to MaxHandled times within one day,   *)
(* and more roll-ups than the long-term file keeps summaries.              *)
(***************************************************************************)
RollupEvents ==
    [message_type : {"private"}, raw_message : {<<"hi">>}, user_id : {"u1"},
     self_id : {BOT_ID}, group_id : {"g1"}]

HandleRollup ==
    HandleMessageEventWith(RollupEvents,
                           {[kind |-> "ok", content |-> <<"hello">>, tool_calls |-> <<>>]},
                           {ApiConfigured}, {"ok"}, {LiveConn})

RefreshRollup == RefreshUserMemoryWith(Users, MaxRollups, MaxRollups)

NextRollup == HandleRollup \/ RefreshRollup

SpecRollup == InitMemory /\ [][NextRollup]_vars

(***************************************************************************)
(* Cancellation of the background tasks.                                   *)
(***************************************************************************)

\* C38: once lifespan has closed the registered connection, and once its
\* shutdown path is over, the registry holds no connection that is open:
\* the connection task registers none between the close and its
\* cancellation.
C38_NoOpenConnectionAfterShutdown ==
    shutdown \in {"closed", "done"} => ~(registry # "" /\ alive)

\* C24: once cancel() was called on the connection loop in its backoff
\* sleep, or on the tailer in its poll sleep, the task makes no connect or
\* fetch attempt and its only step is to end cancelled; it does end, and
\* the "await task" of lifespan completes.
C24_CancelDuringSleepTerminates ==
    /\ [][/\ cancelAt["conn"] = "backoff" =>
               /\ attemptBit' = attemptBit /\ lastConnect' = lastConnect
               /\ cpc' # cpc => cpc' = "cancelled" /\ task'["conn"] = "cancelled"
          /\ cancelAt["tailer"] = "sleep" =>
               /\ polls' = polls /\ lastPoll' = lastPoll
               /\ tpc' # tpc => tpc' = "cancelled" /\ task'["tailer"] = "cancelled"]_vars
    /\ (cancelAt["conn"] = "backoff") ~> (task["conn"] = "cancelled" /\ shutdown = "done")
    /\ (cancelAt["tailer"] = "sleep") ~> (task["tailer"] = "cancelled")

\* Both tasks were cancelled in their sleep, the tailer in the sleep that
\* ends an iteration, and both have ended; lifespan has left its await.
C24_Witness ==
    /\ cancelAt["conn"] = "backoff" /\ cancelAt["tailer"] = "sleep"
    /\ lastPoll.outcome # "exception"
    /\ task["conn"] = "cancelled" /\ task["tailer"] = "cancelled"
    /\ shutdown = "done"

(***************************************************************************)
(* Properties of the message handler and the AI orchestrator.  They speak  *)
(* of lastMsg, the record of the last message event handled.               *)
(***************************************************************************)
\* The event is one the bot answers: private, or a group message that
\* mentions the account the event was received for.
Eligible(data) ==
    \/ data.message_type = "private"
    \/ /\ data.message_type = "group"
       /\ data.self_id # NoId
       /\ \E i \in 1..Len(data.raw_message) :
             data.raw_message[i] = AtMarker(data.self_id)

\* C14: get_ai_response is called for a message event exactly when AI is
\* enabled and the event is eligible; otherwise there is no completion
\* call, no command, no memory write and no outbound message.
C14_ReplyIffEligible ==
    handled > 0 =>
        /\ lastMsg.attempted <=> (lastMsg.enabled /\ Eligible(lastMsg.data))
        /\ lastMsg.called <=> (lastMsg.enabled /\ Eligible(lastMsg.data))
        /\ ~(lastMsg.enabled /\ Eligible(lastMsg.data))
           => /\ ~lastMsg.sent /\ ~lastMsg.delivered
              /\ lastMsg.commands = <<>>
              /\ ~lastMsg.wrote

\* A group message that mentions the bot led to a completion call, and a
\* reply went out to the group.
C14_Witness ==
    /\ lastMsg.data.message_type = "group"
    /\ lastMsg.called
    /\ lastMsg.delivered
    /\ lastMsg.frame.group_id = lastMsg.data.group_id

\* The message list of a request made of the system prompt and the user
\* text alone.
PlainMessages(m) ==
    << [role |-> "system", content |-> AI_CONFIG.system_prompt],
       [role |-> "user", content |-> m.data.raw_message] >>

\* The message list with the memory context between the two.
MessagesWithContext(m) ==
    << [role |-> "system", content |-> AI_CONFIG.system_prompt],
       [role |-> "system", content |-> <<"memory context:", NL>> \o m.context],
       [role |-> "user", content |-> m.data.raw_message] >>

\* What C15 says of a private message but for the message list.
PrivateReply(m) ==
    /\ ~m.enabled => (~m.called /\ ~m.sent /\ m.reply = <<>>)
    /\ m.enabled =>
         /\ m.called
         /\ ~OffersTool(m.data.raw_message)
            => (m.request.tools = {} /\ m.request.tool_choice = "unset")
         /\ (m.completion.kind = "ok" /\ m.completion.tool_calls = <<>>
             /\ m.completion.content # <<>>)
            => /\ m.sent
               /\ m.frame.message = m.completion.content
               /\ m.frame.user_id = m.data.user_id

\* C15 as stated: a private message with AI disabled gets no reply; with AI
\* enabled the completion is asked with exactly the system prompt and the
\* user text, without tool when the text has no transport keyword, and its
\* content is the reply.
C15_ExactPrompt ==
    (handled > 0 /\ lastMsg.data.message_type = "private") =>
        /\ PrivateReply(lastMsg)
        /\ lastMsg.enabled => lastMsg.request.messages = PlainMessages(lastMsg)

\* C15, amended: the message list is the system prompt and the user text
\* when the user has no memory context; when there is one, it is a second
\* system message between the two.
C15_PromptWithMemoryContext ==
    (handled > 0 /\ lastMsg.data.message_type = "private") =>
        /\ PrivateReply(lastMsg)
        /\ lastMsg.enabled =>
             lastMsg.request.messages =
                IF lastMsg.context = <<>> THEN PlainMessages(lastMsg)
                ELSE MessagesWithContext(lastMsg)

\* A private message of a user who was answered before: the request holds
\* three messages, no tool, and the completion's content went back.
C15_Witness ==
    /\ lastMsg.data.message_type = "private"
    /\ lastMsg.enabled
    /\ lastMsg.context # <<>>
    /\ Len(lastMsg.request.messages) = 3
    /\ lastMsg.request.tools = {}
    /\ lastMsg.delivered

\* The teleport_player calls of a completion.
TeleportCalls(c) ==
    {i \in 1..Len(c.tool_calls) : c.tool_calls[i].name = "teleport_player"}

\* The teleport_player call of a completion that has one: the first, should
\* there be several.
FirstTeleport(c) == c.tool_calls[SetMin(TeleportCalls(c))]

\* C25: when the completion API is called, the request offers the teleport
\* tool, and sets tool_choice to that tool, exactly when the raw text holds
\* the transport keyword and one of the two verbs; otherwise it has neither
\* tools nor tool_choice.
C25_ToolOfferedIffKeywords ==
    lastMsg.called =>
        IF /\ TRANSPORT \in SeqToSet(lastMsg.data.raw_message)
           /\ {VERB_BA, VERB_JIANG} \cap SeqToSet(lastMsg.data.raw_message) # {}
        THEN /\ lastMsg.request.tools = {"teleport_player"}
             /\ lastMsg.request.tool_choice = "teleport_player"
        ELSE /\ lastMsg.request.tools = {}
             /\ lastMsg.request.tool_choice = "unset"

\* The tool is offered for a text with the transport keyword and the second
\* verb only.
C25_Witness ==
    /\ lastMsg.called
    /\ TRANSPORT \in SeqToSet(lastMsg.data.raw_message)
    /\ VERB_JIANG \in SeqToSet(lastMsg.data.raw_message)
    /\ VERB_BA \notin SeqToSet(lastMsg.data.raw_message)
    /\ lastMsg.request.tools = {"teleport_player"}

\* C26: the prompt of a completion call starts with the configured system
\* prompt and ends with the raw user text; between them is one more system
\* turn when the user's formatted memory context is not empty, and nothing
\* when it is empty.
C26_PromptShape ==
    lastMsg.called =>
        /\ Len(lastMsg.request.messages) = IF lastMsg.context # <<>> THEN 3 ELSE 2
        /\ lastMsg.request.messages[1] =
               [role |-> "system", content |-> AI_CONFIG.system_prompt]
        /\ lastMsg.request.messages[Len(lastMsg.request.messages)] =
               [role |-> "user", content |-> lastMsg.data.raw_message]
        /\ \A i \in 2..(Len(lastMsg.request.messages) - 1) :
               lastMsg.request.messages[i].role = "system"

\* A call with a context made of a long-term summary only (three turns),
\* after the short-term entries have aged out.
C26_Witness ==
    /\ lastMsg.called
    /\ Len(lastMsg.request.messages) = 3
    /\ GetShortTermMemory(short_term, lastMsg.data.user_id, SHORT_TERM_HOURS, lastMsg.at) = <<>>
    /\ lastMsg.wrote = FALSE

\* C16: when the teleport_player call of the completion (the first, should
\* there be several) has arguments without player_from or without
\* player_to, missing or empty, the reply is the incomplete-parameters
\* message and no remote command is issued.
C16_IncompleteParamsNoCommand ==
    ( /\ lastMsg.called /\ lastMsg.completion.kind = "ok"
      /\ TeleportCalls(lastMsg.completion) # {}
      /\ FirstTeleport(lastMsg.completion).json = "object"
      /\ \/ FirstTeleport(lastMsg.completion).player_from = ""
         \/ FirstTeleport(lastMsg.completion).player_to = "" )
    => /\ lastMsg.reply = INCOMPLETE_PARAMS
       /\ lastMsg.commands = <<>>
       /\ lastMsg.sent /\ lastMsg.frame.message = INCOMPLETE_PARAMS

\* A tool call with only player_from set was answered with the
\* incomplete-parameters message, delivered, and no command ran.
C16_Witness ==
    /\ lastMsg.called
    /\ TeleportCalls(lastMsg.completion) # {}
    /\ FirstTeleport(lastMsg.completion).player_from # ""
    /\ FirstTeleport(lastMsg.completion).player_to = ""
    /\ lastMsg.reply = INCOMPLETE_PARAMS
    /\ lastMsg.delivered
    /\ lastMsg.commands = <<>>

\* C17: when the teleport_player call of the completion (the first, should
\* there be several) has both players set, exactly one command "tp <from> <to>" is issued, for the default
\* daemon and instance of the configuration; a result "success" makes the
\* reply the confirmation, any other the failure text with the result's
\* message.
C17_TeleportCommandAndReply ==
    ( /\ lastMsg.called /\ lastMsg.completion.kind = "ok"
      /\ TeleportCalls(lastMsg.completion) # {}
      /\ FirstTeleport(lastMsg.completion).json = "object"
      /\ FirstTeleport(lastMsg.completion).player_from # ""
      /\ FirstTeleport(lastMsg.completion).player_to # "" )
    => /\ Len(lastMsg.commands) = 1
       /\ lastMsg.commands[1].command =
             << "tp", FirstTeleport(lastMsg.completion).player_from,
                FirstTeleport(lastMsg.completion).player_to >>
       /\ lastMsg.commands[1].daemonId = MainConfig.default_daemon_id
       /\ lastMsg.commands[1].uuid = MainConfig.default_uuid
       /\ lastMsg.commands[1].status = "success"
          => lastMsg.reply = << "teleported", FirstTeleport(lastMsg.completion).player_from,
                                "to", FirstTeleport(lastMsg.completion).player_to >>
       /\ lastMsg.commands[1].status # "success"
          => lastMsg.reply = <<"teleport failed:">> \o lastMsg.commands[1].message
       /\ lastMsg.sent /\ lastMsg.frame.message = lastMsg.reply

\* The command went to the remote API, which refused it: the reply carries
\* the failure and its message.
C17_Witness ==
    /\ Len(lastMsg.commands) = 1
    /\ lastMsg.commands[1].requested
    /\ lastMsg.commands[1].status = "error"
    /\ lastMsg.reply = <<"teleport failed:">> \o lastMsg.commands[1].message
    /\ lastMsg.delivered

OneEntryMore(m, before, after) ==
    /\ DOMAIN after = DOMAIN before \cup { << m.data.user_id, m.at \div DAY >> }
    /\ \A f \in DOMAIN before \ { << m.data.user_id, m.at \div DAY >> } :
          after[f] = before[f]
    /\ after[<< m.data.user_id, m.at \div DAY >>] =
          Append(IF << m.data.user_id, m.at \div DAY >> \in DOMAIN before
                 THEN before[<< m.data.user_id, m.at \div DAY >>] ELSE <<>>,
                 [timestamp |-> m.at, message |-> m.data.raw_message,
                  response |-> m.completion.content])

\* C19: handling a message appends one entry {message, response} to the
\* user's memory exactly when the completion came back with non-empty
\* content, and the response of the entry is that content, never the text
\* made of a tool call's result.
C19_MemoryWriteIffContent ==
    [][ handled' = handled + 1 =>
          IF lastMsg'.called /\ lastMsg'.completion.kind = "ok"
             /\ lastMsg'.completion.content # <<>>
          THEN lastMsg'.wrote /\ OneEntryMore(lastMsg', short_term, short_term')
          ELSE ~lastMsg'.wrote /\ short_term' = short_term ]_vars

\* A completion with content and a tool call: the reply is the
\* confirmation, the entry written holds the content.
C19_Witness ==
    /\ lastMsg.wrote
    /\ lastMsg.completion.tool_calls # <<>>
    /\ lastMsg.reply # lastMsg.completion.content
    /\ lastMsg.reply # <<>>
    /\ \E f \in DOMAIN short_term : \E i \in 1..Len(short_term[f]) :
          short_term[f][i].response = lastMsg.completion.content

\* The user has a short-term entry written within the last 24 hours.
RecentEntry(u) ==
    \E f \in DOMAIN short_term :
        /\ f[1] = u
        /\ \E i \in 1..Len(short_term[f]) : now - short_term[f][i].timestamp <= 24 * HOUR

\* The user has a long-term summary.
HasSummary(u) == u \in DOMAIN long_term /\ long_term[u] # <<>>

\* C20: at every time and for every user, the context is empty exactly
\* when the user has no short-term entry of the last 24 hours and no
\* long-term summary.
C20_ContextEmptyIffNoMemory ==
    \A u \in Users :
        (FormatMemoriesForAi(short_term, long_term, u, now) = <<>>)
        <=> (~RecentEntry(u) /\ ~HasSummary(u))

(***************************************************************************)
(* Properties of the short-term files.                                     *)
(***************************************************************************)

\* q is p with n entries added at the end.
Extends(p, q, n) == Len(q) = Len(p) + n /\ SubSeq(q, 1, Len(p)) = p

\* C33: no step removes a short-term file or changes the entries a file
\* holds or their order; a step that changes the short-term store adds one
\* entry at the end of the file of the writing user and the current day,
\* creating the file if needed, and leaves every other file and the
\* long-term store as they were.
C33_ShortTermAppendOnly ==
    [][/\ \A f \in DOMAIN short_term :
             f \in DOMAIN short_term' /\ \E n \in {0, 1} : Extends(short_term[f], short_term'[f], n)
       /\ short_term' # short_term =>
             /\ long_term' = long_term
             /\ DOMAIN short_term' = DOMAIN short_term \cup {<< lastMsg'.data.user_id, DateOf(now) >>}
             /\ \A f \in DOMAIN short_term \ {<< lastMsg'.data.user_id, DateOf(now) >>} :
                   short_term'[f] = short_term[f]
             /\ Extends(IF << lastMsg'.data.user_id, DateOf(now) >> \in DOMAIN short_term
                        THEN short_term[<< lastMsg'.data.user_id, DateOf(now) >>] ELSE <<>>,
                        short_term'[<< lastMsg'.data.user_id, DateOf(now) >>], 1)]_vars

\* A write has just added a second, later entry to a user's file of the
\* day, and the user has a long-term summary.
C33_Witness ==
    /\ lastMsg.wrote
    /\ << lastMsg.data.user_id, DateOf(now) >> \in DOMAIN short_term
    /\ \E q \in {short_term[<< lastMsg.data.user_id, DateOf(now) >>]} :
          /\ Len(q) = 2
          /\ q[1].timestamp < q[2].timestamp
          /\ q[2].timestamp = lastMsg.at
    /\ lastMsg.data.user_id \in DOMAIN long_term

(***************************************************************************)
(* Properties of the memory roll-up.                                       *)
(***************************************************************************)
\* The long-term summaries of a user, none without a file.
Summaries(lt, u) == IF u \in DOMAIN lt THEN lt[u] ELSE <<>>

\* The last 30 of a list, all of it when it is shorter.
Last30(q) == [i \in 1..(IF Len(q) > 30 THEN 30 ELSE Len(q)) |->
                 q[i + (IF Len(q) > 30 THEN Len(q) - 30 ELSE 0)]]

\* C21: a user's long-term list holds at most 30 summaries, the 30 appended
\* last, in the order they were appended; a roll-up of a user with entries
\* of today appends exactly one summary, a roll-up of a user without any
\* leaves the long-term lists as they are.
C21_LongTermCappedAt30 ==
    /\ [](\A u \in Users :
            /\ Len(Summaries(long_term, u)) <= 30
            /\ Summaries(long_term, u) = Last30(Summaries(appended, u)))
    /\ [][ lastRollup'.n = lastRollup.n + 1 =>
            /\ \A u \in Users \ {lastRollup'.user} :
                  Summaries(long_term', u) = Summaries(long_term, u)
            /\ IF lastRollup'.today = <<>>
               THEN long_term' = long_term
               ELSE /\ Summaries(long_term', lastRollup'.user) =
                          Last30(Append(Summaries(long_term, lastRollup'.user),
                                        [date |-> now \div DAY,
                                         count |-> Len(lastRollup'.today)]))
                    /\ Len(Summaries(appended', lastRollup'.user)) =
                          Len(Summaries(appended, lastRollup'.user)) + 1 ]_vars

\* More than 30 summaries were appended for a user, of which the oldest
\* differs from the newest: the list holds 30 and no longer the oldest.
C21_Witness ==
    /\ Len(Summaries(appended, "u1")) > 30
    /\ Len(Summaries(long_term, "u1")) = 30
    /\ Summaries(appended, "u1")[1] # Summaries(long_term, "u1")[1]
    /\ Summaries(long_term, "u1")[30] = Summaries(appended, "u1")[Len(Summaries(appended, "u1"))]
    /\ Summaries(long_term, "u2") = <<>>
    /\ lastRollup.user = "u2"

(***************************************************************************)
(* Properties of the connection manager.                                   *)
(***************************************************************************)
\* C9: connect_to_onebot never returns, and after every end of a
\* connection or of a connect attempt it makes another connect attempt.
C9_ReconnectsForever ==
    /\ [](cpc # "returned")
    /\ \A b \in {0, 1} : (ended /\ attemptBit = b) ~> (attemptBit # b)

\* A connect attempt was made after an established connection had ended,
\* and it failed in its turn.
C9_Witness ==
    /\ registry = "ws"
    /\ ~alive
    /\ lastConnect.attempted /\ ~lastConnect.first /\ ~lastConnect.ok
    /\ ended

\* A connect attempt has just succeeded.
ConnectSucceeds ==
    /\ cpc = "connect" /\ cpc' = "receive"
    /\ lastConnect'.ok /\ attemptBit' # attemptBit

\* C32: the registry holds nothing or the one handle of key "onebot"; it
\* changes only when a connect attempt succeeds, which registers a live
\* handle; an entry is never removed; a call of send_message leaves it as
\* it is; and an entry whose connection has ended stays, ended, until a
\* connect attempt succeeds.
C32_RegistryWrittenOnlyByConnect ==
    /\ [](registry \in {"", "ws"})
    /\ [][/\ registry' # registry => ConnectSucceeds
          /\ ConnectSucceeds => (registry' = "ws" /\ alive')
          /\ registry # "" => registry' # ""
          /\ sends' # sends => (registry' = registry /\ alive' = alive)
          /\ (registry # "" /\ ~alive /\ ~ConnectSucceeds) =>
                (registry' = registry /\ ~alive')]_vars

\* The connection has ended and a reconnect attempt has failed; a send was
\* just tried on the handle still registered, and the entry is unchanged.
C32_Witness ==
    /\ registry = "ws" /\ ~alive
    /\ lastConnect.attempted /\ ~lastConnect.ok
    /\ lastSend.conn.present /\ ~lastSend.conn.alive
    /\ lastSend.outcome \in {"closed", "send_error"}

\* C11: send_message never lets an exception reach its caller; a message
\* goes onto a connection at most once, and only within its own call, when
\* that call found a live connection; a message dropped because there was no
\* connection, a closed one, or a failing send never goes out later.
C11_SendAtMostOnceNoQueue ==
    /\ [](~lastSend.raised)
    /\ [](\A i, j \in 1..Len(wire) : wire[i] = wire[j] => i = j)
    /\ [][ wire' # wire =>
             /\ sends' = sends + 1
             /\ wire' = Append(wire, sends')
             /\ lastSend'.id = sends' /\ lastSend'.outcome = "sent"
             /\ lastSend'.conn.present /\ lastSend'.conn.alive ]_vars
    /\ [][ ( /\ sends' = sends + 1
             /\ \/ ~lastSend'.conn.present
                \/ lastSend'.conn.hasOpen /\ ~lastSend'.conn.alive
                \/ ~lastSend'.conn.alive )
           => wire' = wire ]_vars

\* A send failed on a dead handle without raising, the gateway is connected
\* again, and the message has not gone out.
C11_Witness ==
    /\ lastSend.outcome = "send_error"
    /\ ~lastSend.raised
    /\ alive
    /\ lastSend.id \notin SeqToSet(wire)

\* C12: handling a frame that is no JSON, or whose handler raises, leaves
\* the pump receiving and the connection registered, and every frame that
\* has arrived is dispatched in the end.
C12_BadFrameKeepsPump ==
    /\ [][ (current.kind \in {"garbage", "poison"} /\ dispatched' # dispatched)
           => /\ cpc' = "receive"
              /\ registry' = registry /\ alive' = alive
              /\ inbox' = inbox ]_vars
    /\ \A n \in 1..MaxFrames :
         (arrived >= n) ~> (\E i \in 1..Len(dispatched) : dispatched[i].id = n)

\* On the first connection a frame was dropped (no JSON, or the handler
\* raised) and the frame after it was handled.
C12_Witness ==
    /\ lastConnect.first /\ alive
    /\ Len(dispatched) = 2
    /\ dispatched[1].result # "handled"
    /\ dispatched[2].result = "handled"

\* The ids of a sequence of frames.
Ids(frames) == [i \in 1..Len(frames) |-> frames[i].id]

\* C13: the frames dispatched, the frame being handled and the frames
\* waiting are, in this order, the frames that arrived, each once; and a
\* frame is read only when no frame is being handled.
C13_DispatchOnceInOrder ==
    /\ [](Ids(dispatched) \o (IF current = NoFrame THEN <<>> ELSE <<current.id>>)
            \o Ids(inbox) = [i \in 1..arrived |-> i])
    /\ [][ (current' # current /\ current' # NoFrame) => current = NoFrame ]_vars

\* A frame was dispatched on one connection and the next frame on the
\* connection made after it.
C13_Witness ==
    /\ Len(dispatched) = 2
    /\ dispatched[1].bit # dispatched[2].bit
    /\ dispatched[1].id = 1 /\ dispatched[2].id = 2

\* C10: every connect attempt but the first comes after the 5-second wait.
C10_BackoffBeforeEveryAttempt ==
    (lastConnect.attempted /\ ~lastConnect.first) => lastConnect.waited >= RECONNECT_DELAY

====
